---- MODULE Spec2Model ----
(***************************************************************************)
(* State-machine model of the cloud-stock-operator account ledger.         *)
(*                                                                         *)
(* The DynamoDB single table is the variable `table`; every Lambda handler *)
(* and the local worker's message handlers are operators that take the     *)
(* table and the invocation's input and return the table after the call,   *)
(* what the call returned (or raised), and the messages it published.      *)
(*                                                                         *)
(* Modelling conventions                                                   *)
(*  - An item is a function from attribute names to values; its DOMAIN is  *)
(*    the set of attributes the item has.  Every write of the program sets *)
(*    at least one of the modelled attributes, so "no item under this key" *)
(*    is the empty function, which is also what `resp.get("Item") or {}`   *)
(*    yields for a missing item.                                           *)
(*  - created_at / updated_at are not modelled: no handler reads them.     *)
(*  - One account (the STS identity); the partition key is left implicit.  *)
(*  - Money and share amounts are integers (Decimal(str(n)) and int(n) of  *)
(*    an integral JSON number are exact).                                  *)
(*  - A DynamoDB ConditionExpression is read by its arithmetic meaning and *)
(*    is evaluated atomically with the write of the same update_item.      *)
(*  - A DynamoDB or SNS call fails only where a ConditionExpression is     *)
(*    false (the publish-failure specification has sns.publish raise as    *)
(*    well); the topics are the ones the CDK stack configures.             *)
(*  - The timestamps of two score-history items of one symbol differ, so   *)
(*    the history is the sequence of the items in the order written.       *)
(***************************************************************************)
EXTENDS Integers, Sequences, FiniteSets, TLC

VARIABLES
    table,      \* the DynamoDB table T (src/cdk/infra_stack.py:35)
    req,        \* the input of the last handler invocation
    resp,       \* what the last handler invocation returned or raised
    published,  \* the messages the last handler invocation published
    ops,        \* number of handler invocations so far (bounds the run)
    inflight,   \* invocations in progress (concurrent specifications)
    marks,      \* the _mark_news_seen calls of the last invocation, with results
    bucket,     \* the S3 bucket S of news artifacts: object key -> its tags
    today,      \* the current UTC date, as a day number
    clock,      \* the wall clock, in ticks of half a second
    queue       \* the messages sent to SystemOpsQueue (Q2), deleted ones marked

vars == <<table, req, resp, published, ops, inflight, marks, bucket, today, clock, queue>>

-----------------------------------------------------------------------------
(* Items                                                                   *)

EmptyItem == [a \in {} |-> 0]

Has(item, a) == a \in DOMAIN item

\* dict.get(a, default)
Get(item, a, default) == IF Has(item, a) THEN item[a] ELSE default

\* UpdateExpression "SET a = v"
SetAttr(item, a, v) ==
    [k \in DOMAIN item \cup {a} |-> IF k = a THEN v ELSE item[k]]

\* if_not_exists(a, zero)
IfNotExists(item, a, zero) == IF Has(item, a) THEN item[a] ELSE zero

-----------------------------------------------------------------------------
(* Input domains                                                           *)

Symbols == {"AAPL", "MSFT"}

\* str.upper() on the symbols that occur
Upper(s) ==
    CASE s = "aapl" -> "AAPL"
      [] s = "msft" -> "MSFT"
      [] OTHER -> s

DeltaValues == {-1, 1, 2}
CeilingValues == {0, 2}
InitialShareValues == {0, 2}

\* Deployment configuration of the control-plane Lambda's environment.
EXTERNAL_OPS_TOPIC_ARN == "ExternalOpsTopic"
SYSTEM_OPS_TOPIC_ARN == "SystemOpsTopic"
NEWS_FETCHER_NAME == "NewsFetcherLambda"

\* No item under any key of a key range
NoItems == [k \in {} |-> EmptyItem]

\* The bucket S with no object in it
NoObjects == [k \in {} |-> [deleted |-> FALSE]]

EmptyTable ==
    [ summary  |-> EmptyItem,
      stocks   |-> [s \in Symbols |-> EmptyItem],
      scores   |-> << >>,
      newshash |-> NoItems,
      trades   |-> << >>,
      networth |-> NoItems ]

-----------------------------------------------------------------------------
(* Outcomes of a call                                                      *)

Response(status, body) == [kind |-> "response", status |-> status, body |-> body]

Raised(error) == [kind |-> "exception", error |-> error]

Outcome(t, r, pub) == [table |-> t, resp |-> r, published |-> pub]

Message(topic, msg) == [topic |-> topic, msg |-> msg]

-----------------------------------------------------------------------------
(* Control-plane API Lambda (src/lambda/control_plane_api/main.py)         *)

\* The fields of an audit event that hold decimal.Decimal values: json.dumps
\* raises TypeError on them.
DecimalFields(event) ==
    IF event.type = "ADJUST_MANAGED_CASH"
    THEN {"delta_cash", "max_allowed_cash"}
    ELSE {}

JsonSerializable(event) == DecimalFields(event) = {}

\* _publish_external: best-effort; json.dumps and sns.publish both run inside
\* the try block, whose except clause only prints.
PublishExternal(event) ==
    IF EXTERNAL_OPS_TOPIC_ARN = "" THEN << >>
    ELSE IF JsonSerializable(event)
         THEN << Message("ExternalOpsTopic", event) >>
         ELSE << >>

\* The ceiling test with the comparison made strict.
CeilingConditionStrict(item, attr, delta, max) ==
    IfNotExists(item, attr, 0) + delta < max

\* ConditionExpression "if_not_exists(attr, :zero) + :delta <= :max"
CeilingCondition(item, attr, delta, max) ==
    IfNotExists(item, attr, 0) + delta <= max

\* A write that stores the delta over whatever the field held.
AddToAttrOverwriting(item, attr, delta) ==
    SetAttr(item, attr, delta)

\* UpdateExpression "SET attr = if_not_exists(attr, :zero) + :delta"
AddToAttr(item, attr, delta) ==
    SetAttr(item, attr, IfNotExists(item, attr, 0) + delta)

\* table.put_item of a fresh watchlist entry
NewWatchlistItem(symbol, shares) ==
    [ symbol              |-> symbol,
      shares_managed      |-> shares,
      current_level_score |-> 0,
      threshold_abs       |-> 3,
      is_deleted          |-> FALSE ]

\* An add that leaves an entry that is already there as it is.
_handle_add_watchlistOnce(t, body) ==
    LET symbol == Upper(Get(body, "symbol", ""))
        shares == Get(body, "shares_managed", 0)
    IN  IF symbol = ""
        THEN Outcome(t, Response(400, [error |-> "symbol is required"]), << >>)
        ELSE Outcome(
               IF t.stocks[symbol] # EmptyItem THEN t
               ELSE [t EXCEPT !.stocks[symbol] = NewWatchlistItem(symbol, shares)],
               Response(200, [message |-> "stock added", symbol |-> symbol]),
               PublishExternal([type |-> "ADD_STOCK", symbol |-> symbol,
                                initial_shares_managed |-> shares])
               \o (IF NEWS_FETCHER_NAME = "" THEN << >>
                   ELSE << Message("InvokeNewsFetcher", [type |-> "INVOKE"]) >>))

_handle_add_watchlist(t, body) ==
    LET symbol == Upper(Get(body, "symbol", ""))
        shares == Get(body, "shares_managed", 0)
    IN  IF symbol = ""
        THEN Outcome(t, Response(400, [error |-> "symbol is required"]), << >>)
        ELSE Outcome(
               [t EXCEPT !.stocks[symbol] = NewWatchlistItem(symbol, shares)],
               Response(200, [message |-> "stock added", symbol |-> symbol]),
               PublishExternal([type |-> "ADD_STOCK", symbol |-> symbol,
                                initial_shares_managed |-> shares])
               \o (IF NEWS_FETCHER_NAME = "" THEN << >>
                   ELSE << Message("InvokeNewsFetcher", [type |-> "INVOKE"]) >>))

_handle_delete_watchlist(t, rawSymbol) ==
    LET symbol == Upper(rawSymbol)
    IN  Outcome(t,
                Response(200, [message |-> "stock deleted", symbol |-> symbol]),
                (IF SYSTEM_OPS_TOPIC_ARN = "" THEN << >>
                 ELSE << Message("SystemOpsTopic",
                                 [type |-> "MARK_STOCK_DELETED",
                                  symbol |-> symbol]) >>)
                \o PublishExternal([type |-> "DELETE_STOCK", symbol |-> symbol]))

_handle_adjust_cash(t, body) ==
    IF ~Has(body, "delta_cash") \/ ~Has(body, "max_allowed_cash")
    THEN Outcome(t, Response(400,
                 [error |-> "delta_cash and max_allowed_cash are required"]), << >>)
    ELSE LET delta == body.delta_cash
             max   == body.max_allowed_cash
         IN  IF CeilingCondition(t.summary, "current_cash_managed", delta, max)
             THEN Outcome(
                    [t EXCEPT !.summary =
                        AddToAttr(@, "current_cash_managed", delta)],
                    Response(200, [message |-> "cash adjusted"]),
                    PublishExternal([type |-> "ADJUST_MANAGED_CASH",
                                     delta_cash |-> delta,
                                     max_allowed_cash |-> max]))
             ELSE Outcome(t, Raised("ConditionalCheckFailedException"), << >>)

_handle_adjust_shares(t, body) ==
    IF ~Has(body, "symbol") \/ ~Has(body, "delta_shares")
         \/ ~Has(body, "max_shares_allowed")
    THEN Outcome(t, Response(400,
                 [error |-> "symbol, delta_shares, max_shares_allowed are required"]),
                 << >>)
    ELSE LET symbol == Upper(body.symbol)
             delta  == body.delta_shares
             max    == body.max_shares_allowed
         IN  IF CeilingCondition(t.stocks[symbol], "shares_managed", delta, max)
             THEN Outcome(
                    [t EXCEPT !.stocks[symbol] =
                        AddToAttr(@, "shares_managed", delta)],
                    Response(200, [message |-> "shares adjusted",
                                   symbol |-> symbol]),
                    PublishExternal([type |-> "ADJUST_MANAGED_SHARES",
                                     symbol |-> symbol,
                                     delta_shares |-> delta,
                                     max_shares_allowed |-> max]))
             ELSE Outcome(t, Raised("ConditionalCheckFailedException"), << >>)

\* A setThreshold that takes the default threshold when the body has none.
_handle_set_thresholdDefaulting(t, rawSymbol, body) ==
    LET symbol        == Upper(rawSymbol)
        threshold_abs == Get(body, "threshold_abs", 3)
    IN  Outcome(
          [t EXCEPT !.stocks[symbol] = SetAttr(@, "threshold_abs", threshold_abs)],
          Response(200, [message |-> "threshold updated", symbol |-> symbol]),
          PublishExternal([type |-> "SET_THRESHOLD", symbol |-> symbol,
                           threshold_abs |-> threshold_abs]))

_handle_set_threshold(t, rawSymbol, body) ==
    IF ~Has(body, "threshold_abs")
    THEN Outcome(t, Response(400, [error |-> "threshold_abs is required"]), << >>)
    ELSE LET symbol == Upper(rawSymbol)
         IN  Outcome(
               [t EXCEPT !.stocks[symbol] =
                   SetAttr(@, "threshold_abs", body.threshold_abs)],
               Response(200, [message |-> "threshold updated", symbol |-> symbol]),
               PublishExternal([type |-> "SET_THRESHOLD", symbol |-> symbol,
                                threshold_abs |-> body.threshold_abs]))

\* The threshold checks with the comparisons made strict.
ThresholdCheckStrict(new_score, threshold_abs) ==
    IF new_score > threshold_abs THEN "BUY"
    ELSE IF new_score < -threshold_abs THEN "SELL"
    ELSE "NONE"

\* "Threshold checks": action = None is written "NONE"
ThresholdCheck(new_score, threshold_abs) ==
    IF new_score >= threshold_abs THEN "BUY"
    ELSE IF new_score <= -threshold_abs THEN "SELL"
    ELSE "NONE"

\* A choice of threshold that always takes the request's value.
EffectiveThresholdFromRequest(existing_threshold, threshold_abs) == threshold_abs

\* Python's `existing_threshold or threshold_abs`: 0 is falsy
EffectiveThreshold(existing_threshold, threshold_abs) ==
    IF existing_threshold # 0 THEN existing_threshold ELSE threshold_abs

\* The SCORE#<symbol>#<ts> item of one sentiment application.  The score
\* history is kept as the sequence of these items in key (timestamp) order;
\* _now_iso() of two applications on one symbol is taken to differ.
ScoreHistoryItem(symbol, old_score, delta_score, new_score, threshold_abs, reason) ==
    [ symbol        |-> symbol,
      old_score     |-> old_score,
      delta_score   |-> delta_score,
      new_score     |-> new_score,
      threshold_abs |-> threshold_abs,
      reason        |-> reason ]

\* A decision event that carries the score it was built with negated.
DecisionMessageNegatedScore(symbol, action, score, threshold_abs, reason) ==
    Message("SystemOpsTopic",
            [ type          |-> "AUTO_TRADE_DECISION",
              symbol        |-> symbol,
              action        |-> action,
              score         |-> -score,
              threshold_abs |-> threshold_abs,
              reason        |-> reason ])

DecisionMessage(symbol, action, score, threshold_abs, reason) ==
    Message("SystemOpsTopic",
            [ type          |-> "AUTO_TRADE_DECISION",
              symbol        |-> symbol,
              action        |-> action,
              score         |-> score,
              threshold_abs |-> threshold_abs,
              reason        |-> reason ])

_handle_apply_sentiment(t, body) ==
    LET symbol == Upper(Get(body, "symbol", ""))
    IN  IF symbol = ""
        THEN Outcome(t, Response(400, [error |-> "symbol is required"]), << >>)
        ELSE IF ~Has(body, "delta_score")
        THEN Outcome(t, Response(400, [error |-> "delta_score is required"]), << >>)
        ELSE
          LET delta_score        == body.delta_score
              hint               == Get(body, "threshold_abs", 3)
              reason             == Get(body, "reason", "FINBERT")
              item               == t.stocks[symbol]
              current_score      == Get(item, "current_level_score", 0)
              existing_threshold == Get(item, "threshold_abs", hint)
              new_score          == current_score + delta_score
              threshold_abs      == EffectiveThreshold(existing_threshold, hint)
              action             == ThresholdCheck(new_score, threshold_abs)
              updated            == SetAttr(SetAttr(item, "current_level_score", new_score),
                                            "threshold_abs", threshold_abs)
          IN  Outcome(
                [t EXCEPT !.stocks[symbol] = updated,
                          !.scores = Append(@, ScoreHistoryItem(symbol, current_score,
                                         delta_score, new_score, threshold_abs, reason))],
                Response(200, [ message       |-> "sentiment applied",
                                symbol        |-> symbol,
                                new_score     |-> new_score,
                                threshold_abs |-> threshold_abs,
                                action        |-> action ]),
                IF action # "NONE" /\ SYSTEM_OPS_TOPIC_ARN # ""
                THEN << DecisionMessage(symbol, action, new_score, threshold_abs, reason) >>
                ELSE << >>)

\* handler: dispatch on the HTTP method and the canonical path, given as the
\* sequence of its segments (<<"account", "cash", "adjust">> is
\* /account/cash/adjust).
handler(t, event) ==
    LET method == event.httpMethod
        parts  == event.path
        body   == event.body
    IN  IF method = "POST" /\ parts = <<"watchlist">>
        THEN _handle_add_watchlist(t, body)
        ELSE IF method = "DELETE" /\ Len(parts) >= 1 /\ parts[1] = "watchlist"
                 /\ Len(parts) >= 2
        THEN _handle_delete_watchlist(t, parts[Len(parts)])
        ELSE IF method = "POST" /\ parts = <<"account", "cash", "adjust">>
        THEN _handle_adjust_cash(t, body)
        ELSE IF method = "POST" /\ parts = <<"account", "shares", "adjust">>
        THEN _handle_adjust_shares(t, body)
        ELSE IF method = "POST" /\ Len(parts) >= 3 /\ parts[1] = "watchlist"
                 /\ parts[Len(parts)] = "threshold"
        THEN _handle_set_threshold(t, parts[2], body)
        ELSE IF method = "POST" /\ parts = <<"sentiment">>
        THEN _handle_apply_sentiment(t, body)
        ELSE Outcome(t, Response(404, [error |-> "Unhandled method/path"]), << >>)

-----------------------------------------------------------------------------
(* External-ops handler, Q1 -> DynamoDB (src/lambda/stock_info_writer/main.py) *)

\* What handling one record did: the table after it, the exception it raised
\* ("" when none) and the messages it published.
RecordResult(t, raised, pub) == [table |-> t, raised |-> raised, published |-> pub]

_handle_add_stock(msg, t) ==
    IF ~Has(msg, "symbol")
    THEN RecordResult(t, "KeyError", << >>)
    ELSE LET symbol == msg.symbol
             initial_shares == Get(msg, "initial_shares_managed", 0)
         IN  RecordResult(
               [t EXCEPT !.stocks[symbol] = NewWatchlistItem(symbol, initial_shares)],
               "",
               << Message("SystemOpsTopic",
                          [type |-> "STOCK_ADDED", symbol |-> symbol]) >>)

_handle_adjust_managed_cash(msg, t) ==
    IF ~Has(msg, "delta_cash") \/ ~Has(msg, "max_allowed_cash")
    THEN RecordResult(t, "KeyError", << >>)
    ELSE IF CeilingCondition(t.summary, "current_cash_managed",
                             msg.delta_cash, msg.max_allowed_cash)
    THEN RecordResult(
           [t EXCEPT !.summary = AddToAttr(@, "current_cash_managed", msg.delta_cash)],
           "", << >>)
    ELSE RecordResult(t, "ConditionalCheckFailedException", << >>)

_handle_adjust_managed_shares(msg, t) ==
    IF ~Has(msg, "symbol") \/ ~Has(msg, "delta_shares")
         \/ ~Has(msg, "max_shares_allowed")
    THEN RecordResult(t, "KeyError", << >>)
    ELSE IF CeilingCondition(t.stocks[msg.symbol], "shares_managed",
                             msg.delta_shares, msg.max_shares_allowed)
    THEN RecordResult(
           [t EXCEPT !.stocks[msg.symbol] =
               AddToAttr(@, "shares_managed", msg.delta_shares)],
           "", << >>)
    ELSE RecordResult(t, "ConditionalCheckFailedException", << >>)

\* The body of the handler's loop for one record: "ignored" for a type the
\* handler skips, otherwise the exception the try block caught and printed.
ExternalOpsRecord(msg, t) ==
    LET msg_type == Get(msg, "type", "")
    IN  IF msg_type = "ADD_STOCK" THEN _handle_add_stock(msg, t)
        ELSE IF msg_type = "ADJUST_MANAGED_CASH" THEN _handle_adjust_managed_cash(msg, t)
        ELSE IF msg_type = "ADJUST_MANAGED_SHARES" THEN _handle_adjust_managed_shares(msg, t)
        ELSE RecordResult(t, "ignored", << >>)

\* The results of the loop's iterations, in order, each starting from the
\* table the one before it left.
RECURSIVE ExternalOpsLoop(_, _)
ExternalOpsLoop(records, t) ==
    IF records = << >> THEN << >>
    ELSE LET r == ExternalOpsRecord(Head(records), t)
         IN  << r >> \o ExternalOpsLoop(Tail(records), r.table)

RECURSIVE Concat(_)
Concat(seqs) == IF seqs = << >> THEN << >> ELSE Head(seqs) \o Concat(Tail(seqs))

external_ops_handler(t, records) ==
    LET results   == ExternalOpsLoop(records, t)
        processed == Cardinality({i \in DOMAIN results : results[i].raised = ""})
    IN  Outcome(IF results = << >> THEN t ELSE results[Len(results)].table,
                Response(200, [processed |-> processed]),
                Concat([i \in DOMAIN results |-> results[i].published]))

-----------------------------------------------------------------------------
(* Initial state and the frame shared by the specifications                *)

NoRequest == [source |-> "none"]
NoResponse == [kind |-> "none"]

Init ==
    /\ table = EmptyTable
    /\ req = NoRequest
    /\ resp = NoResponse
    /\ published = << >>
    /\ ops = 0
    /\ inflight = << >>
    /\ marks = << >>
    /\ bucket = NoObjects
    /\ today = 0
    /\ clock = 0
    /\ queue = << >>

\* One whole invocation of the control-plane Lambda on `event`.
ControlPlaneCall(event) ==
    LET out == handler(table, event)
    IN  /\ table' = out.table
        /\ req' = [source |-> "control_plane", event |-> event]
        /\ resp' = out.resp
        /\ published' = out.published
        /\ ops' = ops + 1
        /\ marks' = << >>
        /\ UNCHANGED <<bucket, today, clock, queue>>
        /\ UNCHANGED inflight

Post(path, body) == [httpMethod |-> "POST", path |-> path, body |-> body]

-----------------------------------------------------------------------------
(* Ledger specification: watchlist add and the limit-enforcing adjusts     *)

MaxLedgerOps == 3

RawSymbols == {"aapl", "MSFT"}

AddBodies ==
    {[symbol |-> s, shares_managed |-> n] : s \in RawSymbols, n \in InitialShareValues}
    \cup {EmptyItem}

CashBodies ==
    {[delta_cash |-> d, max_allowed_cash |-> m] : d \in DeltaValues, m \in CeilingValues}
    \cup {[delta_cash |-> 1]}

SharesBodies ==
    {[symbol |-> s, delta_shares |-> d, max_shares_allowed |-> m] :
        s \in RawSymbols, d \in DeltaValues, m \in CeilingValues}
    \cup {[symbol |-> "aapl", delta_shares |-> 1]}

ExternalMessages ==
    {[type |-> "ADD_STOCK", symbol |-> "AAPL", initial_shares_managed |-> 2]}
    \cup {[type |-> "ADJUST_MANAGED_CASH", delta_cash |-> d, max_allowed_cash |-> m] :
            d \in DeltaValues, m \in CeilingValues}
    \cup {[type |-> "ADJUST_MANAGED_SHARES", symbol |-> "AAPL",
           delta_shares |-> d, max_shares_allowed |-> m] :
            d \in DeltaValues, m \in CeilingValues}
    \cup {[type |-> "DELETE_STOCK", symbol |-> "AAPL"]}

\* Messages of the two-record batches
PairedMessages ==
    { [type |-> "ADJUST_MANAGED_CASH", delta_cash |-> 2, max_allowed_cash |-> 2],
      [type |-> "ADJUST_MANAGED_CASH", delta_cash |-> -1, max_allowed_cash |-> 0],
      [type |-> "ADJUST_MANAGED_SHARES", symbol |-> "AAPL",
       delta_shares |-> 1, max_shares_allowed |-> 2],
      [type |-> "DELETE_STOCK", symbol |-> "AAPL"] }

ExternalBatches ==
    {<<m>> : m \in ExternalMessages}
    \cup {<<m1, m2>> : m1 \in PairedMessages, m2 \in PairedMessages}

CPAddWatchlist ==
    /\ ops < MaxLedgerOps
    /\ \E body \in AddBodies : ControlPlaneCall(Post(<<"watchlist">>, body))

CPAdjustCash ==
    /\ ops < MaxLedgerOps
    /\ \E body \in CashBodies :
          ControlPlaneCall(Post(<<"account", "cash", "adjust">>, body))

CPAdjustShares ==
    /\ ops < MaxLedgerOps
    /\ \E body \in SharesBodies :
          ControlPlaneCall(Post(<<"account", "shares", "adjust">>, body))

ExternalOps ==
    /\ ops < MaxLedgerOps
    /\ \E records \in ExternalBatches :
          LET out == external_ops_handler(table, records)
          IN  /\ table' = out.table
              /\ req' = [source |-> "external_ops", records |-> records]
              /\ resp' = out.resp
              /\ published' = out.published
              /\ ops' = ops + 1
              /\ marks' = << >>
              /\ UNCHANGED <<bucket, today, clock, queue>>
        /\ UNCHANGED inflight

LedgerNext == CPAddWatchlist \/ CPAdjustCash \/ CPAdjustShares \/ ExternalOps

LedgerSpec == Init /\ [][LedgerNext]_vars

-----------------------------------------------------------------------------
(* Claims about the limit-enforcing adjusts                                *)

\* The value an adjust starts from: the stored field, 0 when it is missing.
CurrentValue(item, attr) == IF attr \in DOMAIN item THEN item[attr] ELSE 0

\* One adjust of `attr` by `delta` under ceiling `max` that took the item from
\* `before` to `after`: it commits exactly when current + delta <= max, a
\* commit stores current + delta (which is then <= max) and a rejection
\* leaves the item as it was.
AdjustRespectsCeiling(before, after, attr, delta, max, committed) ==
    /\ committed <=> (CurrentValue(before, attr) + delta <= max)
    /\ committed => /\ Has(after, attr)
                    /\ after[attr] = CurrentValue(before, attr) + delta
                    /\ after[attr] <= max
    /\ ~committed => after = before

IsCashAdjustCall(r) ==
    /\ r.source = "control_plane"
    /\ r.event.httpMethod = "POST"
    /\ r.event.path = <<"account", "cash", "adjust">>
    /\ Has(r.event.body, "delta_cash") /\ Has(r.event.body, "max_allowed_cash")

IsSharesAdjustCall(r) ==
    /\ r.source = "control_plane"
    /\ r.event.httpMethod = "POST"
    /\ r.event.path = <<"account", "shares", "adjust">>
    /\ Has(r.event.body, "symbol") /\ Has(r.event.body, "delta_shares")
    /\ Has(r.event.body, "max_shares_allowed")

Committed(r) == r.kind = "response" /\ r.status = 200

\* The table each record of an external-ops batch started from.
TableBeforeRecord(records, t, i) ==
    IF i = 1 THEN t ELSE ExternalOpsLoop(records, t)[i - 1].table

\* C1: every cash adjust and every share adjust, from the control plane or
\* from the external-ops handler, commits if and only if current + delta <=
\* ceiling (a missing field counting as 0); after a commit the field equals
\* current + delta and is <= that call's ceiling; a rejected call leaves the
\* table unchanged.
C1_CeilingEnforced ==
    [][ /\ IsCashAdjustCall(req') =>
             /\ AdjustRespectsCeiling(table.summary, table'.summary,
                    "current_cash_managed", req'.event.body.delta_cash,
                    req'.event.body.max_allowed_cash, Committed(resp'))
             /\ ~Committed(resp') => table' = table
             /\ table'.stocks = table.stocks
        /\ IsSharesAdjustCall(req') =>
             LET symbol == Upper(req'.event.body.symbol)
             IN  /\ AdjustRespectsCeiling(table.stocks[symbol], table'.stocks[symbol],
                        "shares_managed", req'.event.body.delta_shares,
                        req'.event.body.max_shares_allowed, Committed(resp'))
                 /\ ~Committed(resp') => table' = table
                 /\ table'.summary = table.summary
        /\ req'.source = "external_ops" =>
             LET records == req'.records
                 results == ExternalOpsLoop(records, table)
             IN  /\ table' = results[Len(results)].table
                 /\ \A i \in DOMAIN records :
                      LET msg    == records[i]
                          before == TableBeforeRecord(records, table, i)
                          after  == results[i].table
                      IN  /\ msg.type = "ADJUST_MANAGED_CASH" =>
                                /\ AdjustRespectsCeiling(before.summary, after.summary,
                                       "current_cash_managed", msg.delta_cash,
                                       msg.max_allowed_cash, results[i].raised = "")
                                /\ results[i].raised # "" => after = before
                          /\ msg.type = "ADJUST_MANAGED_SHARES" =>
                                /\ AdjustRespectsCeiling(before.stocks[msg.symbol],
                                       after.stocks[msg.symbol], "shares_managed",
                                       msg.delta_shares, msg.max_shares_allowed,
                                       results[i].raised = "")
                                /\ results[i].raised # "" => after = before
      ]_vars

\* C1 witness: an external-ops batch whose first cash adjust committed at its
\* ceiling (0 + 2 <= 2) and whose second was rejected (2 - 1 > 0), leaving 2.
C1_Witness ==
    /\ req.source = "external_ops"
    /\ req.records =
         << [type |-> "ADJUST_MANAGED_CASH", delta_cash |-> 2, max_allowed_cash |-> 2],
            [type |-> "ADJUST_MANAGED_CASH", delta_cash |-> -1, max_allowed_cash |-> 0] >>
    /\ resp.body.processed = 1
    /\ Has(table.summary, "current_cash_managed")
    /\ table.summary.current_cash_managed = 2

\* C3, as claimed: in every reachable state cash_managed >= 0 and every
\* symbol's shares_managed >= 0.
C3_NonNegativeLedger ==
    /\ CurrentValue(table.summary, "current_cash_managed") >= 0
    /\ \A s \in Symbols : CurrentValue(table.stocks[s], "shares_managed") >= 0

\* A control-plane adjust whose ceiling test fails on table `t`.
CeilingWouldBeExceeded(r, t) ==
    \/ /\ IsCashAdjustCall(r)
       /\ CurrentValue(t.summary, "current_cash_managed") + r.event.body.delta_cash
            > r.event.body.max_allowed_cash
    \/ /\ IsSharesAdjustCall(r)
       /\ CurrentValue(t.stocks[Upper(r.event.body.symbol)], "shares_managed")
            + r.event.body.delta_shares > r.event.body.max_shares_allowed

\* C4, as claimed: a control-plane adjust that the ceiling rejects is answered
\* with a structured response (not an exception), changes no ledger field and
\* publishes no ADJUST event.
C4_RejectionIsStructured ==
    [][ CeilingWouldBeExceeded(req', table) =>
          /\ resp'.kind = "response"
          /\ table' = table
          /\ published' = << >>
      ]_vars

-----------------------------------------------------------------------------
(* Concurrent adjust calls.  Each invocation is a separate Lambda          *)
(* execution; the only store access of an adjust is its one update_item,   *)
(* which DynamoDB applies to the item atomically.  An invocation is        *)
(* started, performs its update_item (one per record for an external-ops   *)
(* batch) and then returns; steps of different invocations interleave.     *)

MaxInvocations == 3

ConcurrentCashBodies ==
    { [delta_cash |-> 2, max_allowed_cash |-> 2],
      [delta_cash |-> 1, max_allowed_cash |-> 2],
      [delta_cash |-> -1, max_allowed_cash |-> 0] }

ConcurrentSharesBodies ==
    { [symbol |-> "aapl", delta_shares |-> 2, max_shares_allowed |-> 2],
      [symbol |-> "aapl", delta_shares |-> 1, max_shares_allowed |-> 2] }

ConcurrentBatches ==
    { << [type |-> "ADJUST_MANAGED_CASH", delta_cash |-> 1, max_allowed_cash |-> 2] >>,
      << [type |-> "ADJUST_MANAGED_SHARES", symbol |-> "AAPL",
          delta_shares |-> -1, max_shares_allowed |-> 2],
         [type |-> "ADJUST_MANAGED_CASH", delta_cash |-> 1, max_allowed_cash |-> 0] >> }

\* A control-plane invocation that has not yet reached its update_item.
StartedCall(event) ==
    [source |-> "control_plane", event |-> event, pc |-> "update_item",
     resp |-> NoResponse, published |-> << >>]

\* An external-ops invocation about to handle its first record.
StartedBatch(records) ==
    [source |-> "external_ops", records |-> records, pc |-> "record",
     results |-> << >>]

InvokeAdjustCash ==
    /\ Len(inflight) < MaxInvocations
    /\ \E body \in ConcurrentCashBodies :
          inflight' = Append(inflight,
                             StartedCall(Post(<<"account", "cash", "adjust">>, body)))
    /\ UNCHANGED <<table, req, resp, published, ops, marks, bucket, today, clock, queue>>

InvokeAdjustShares ==
    /\ Len(inflight) < MaxInvocations
    /\ \E body \in ConcurrentSharesBodies :
          inflight' = Append(inflight,
                             StartedCall(Post(<<"account", "shares", "adjust">>, body)))
    /\ UNCHANGED <<table, req, resp, published, ops, marks, bucket, today, clock, queue>>

InvokeExternalOps ==
    /\ Len(inflight) < MaxInvocations
    /\ \E records \in ConcurrentBatches :
          inflight' = Append(inflight, StartedBatch(records))
    /\ UNCHANGED <<table, req, resp, published, ops, marks, bucket, today, clock, queue>>

\* The update_item of a control-plane adjust: condition and write in one step.
CallUpdateItem ==
    \E i \in DOMAIN inflight :
        /\ inflight[i].source = "control_plane"
        /\ inflight[i].pc = "update_item"
        /\ LET out == handler(table, inflight[i].event)
           IN  /\ table' = out.table
               /\ inflight' = [inflight EXCEPT ![i].pc = "return",
                                               ![i].resp = out.resp,
                                               ![i].published = out.published]
        /\ UNCHANGED <<req, resp, published, ops, marks, bucket, today, clock, queue>>

\* The rest of a control-plane adjust: the audit event and the return (or the
\* exception leaving the handler).
CallReturn ==
    \E i \in DOMAIN inflight :
        /\ inflight[i].source = "control_plane"
        /\ inflight[i].pc = "return"
        /\ inflight' = [inflight EXCEPT ![i].pc = "done"]
        /\ req' = [source |-> "control_plane", event |-> inflight[i].event]
        /\ resp' = inflight[i].resp
        /\ published' = inflight[i].published
        /\ ops' = ops + 1
        /\ marks' = << >>
        /\ UNCHANGED <<bucket, today, clock, queue>>
        /\ UNCHANGED table

\* One iteration of the external-ops loop: the update_item of the next record.
BatchRecord ==
    \E i \in DOMAIN inflight :
        /\ inflight[i].source = "external_ops"
        /\ inflight[i].pc = "record"
        /\ LET inv  == inflight[i]
               k    == Len(inv.results) + 1
               r    == ExternalOpsRecord(inv.records[k], table)
           IN  /\ table' = r.table
               /\ inflight' = [inflight EXCEPT
                     ![i].results = Append(@, r.raised),
                     ![i].pc = IF k = Len(inv.records) THEN "return" ELSE "record"]
        /\ UNCHANGED <<req, resp, published, ops, marks, bucket, today, clock, queue>>

BatchReturn ==
    \E i \in DOMAIN inflight :
        /\ inflight[i].source = "external_ops"
        /\ inflight[i].pc = "return"
        /\ inflight' = [inflight EXCEPT ![i].pc = "done"]
        /\ req' = [source |-> "external_ops", records |-> inflight[i].records]
        /\ resp' = Response(200, [processed |->
                      Cardinality({k \in DOMAIN inflight[i].results :
                                      inflight[i].results[k] = ""})])
        /\ published' = << >>
        /\ ops' = ops + 1
        /\ marks' = << >>
        /\ UNCHANGED <<bucket, today, clock, queue>>
        /\ UNCHANGED table

ConcurrentAdjustNext ==
    \/ InvokeAdjustCash \/ InvokeAdjustShares \/ InvokeExternalOps
    \/ CallUpdateItem \/ CallReturn \/ BatchRecord \/ BatchReturn

ConcurrentAdjustSpec == Init /\ [][ConcurrentAdjustNext]_vars

-----------------------------------------------------------------------------
(* Claims about concurrent adjusts                                         *)

RECURSIVE SumSeq(_)
SumSeq(s) == IF s = << >> THEN 0 ELSE Head(s) + SumSeq(Tail(s))

\* The amount one record of an external-ops batch added to `attr` of `symbol`
\* ("" for the account summary), 0 unless it is a committed adjust of it.
RecordCommit(msg, raised, attr, symbol) ==
    IF raised # "" THEN 0
    ELSE IF attr = "current_cash_managed" /\ msg.type = "ADJUST_MANAGED_CASH"
    THEN msg.delta_cash
    ELSE IF attr = "shares_managed" /\ msg.type = "ADJUST_MANAGED_SHARES"
            /\ msg.symbol = symbol
    THEN msg.delta_shares
    ELSE 0

\* The amount an invocation has committed to `attr` of `symbol` so far.
InvocationCommit(inv, attr, symbol) ==
    IF inv.source = "control_plane"
    THEN IF ~Committed(inv.resp) THEN 0
         ELSE IF attr = "current_cash_managed" /\ IsCashAdjustCall(inv)
         THEN inv.event.body.delta_cash
         ELSE IF attr = "shares_managed" /\ IsSharesAdjustCall(inv)
                 /\ Upper(inv.event.body.symbol) = symbol
         THEN inv.event.body.delta_shares
         ELSE 0
    ELSE SumSeq([k \in DOMAIN inv.results |->
                    RecordCommit(inv.records[k], inv.results[k], attr, symbol)])

CommittedTotal(attr, symbol) ==
    SumSeq([i \in DOMAIN inflight |-> InvocationCommit(inflight[i], attr, symbol)])

\* Every field is the initial value (0) plus the deltas of the committed calls.
FieldsAreSumOfCommits ==
    /\ CurrentValue(table.summary, "current_cash_managed")
         = CommittedTotal("current_cash_managed", "")
    /\ \A s \in Symbols :
         CurrentValue(table.stocks[s], "shares_managed")
           = CommittedTotal("shares_managed", s)

\* The update_item steps taken between two states respect the ceiling against
\* the value in the table at that step.
WritesCheckedAgainstPresentValue(old, new, t, tNew) ==
    \A i \in DOMAIN old :
       /\ ( /\ old[i].source = "control_plane"
            /\ old[i].pc = "update_item" /\ new[i].pc = "return" ) =>
              /\ IsCashAdjustCall(old[i]) =>
                   AdjustRespectsCeiling(t.summary, tNew.summary,
                       "current_cash_managed", old[i].event.body.delta_cash,
                       old[i].event.body.max_allowed_cash, Committed(new[i].resp))
              /\ IsSharesAdjustCall(old[i]) =>
                   LET symbol == Upper(old[i].event.body.symbol)
                   IN  AdjustRespectsCeiling(t.stocks[symbol], tNew.stocks[symbol],
                           "shares_managed", old[i].event.body.delta_shares,
                           old[i].event.body.max_shares_allowed,
                           Committed(new[i].resp))
       /\ ( /\ old[i].source = "external_ops"
            /\ Len(new[i].results) = Len(old[i].results) + 1 ) =>
              LET k   == Len(new[i].results)
                  msg == old[i].records[k]
              IN  /\ msg.type = "ADJUST_MANAGED_CASH" =>
                        AdjustRespectsCeiling(t.summary, tNew.summary,
                            "current_cash_managed", msg.delta_cash,
                            msg.max_allowed_cash, new[i].results[k] = "")
                  /\ msg.type = "ADJUST_MANAGED_SHARES" =>
                        AdjustRespectsCeiling(t.stocks[msg.symbol],
                            tNew.stocks[msg.symbol], "shares_managed",
                            msg.delta_shares, msg.max_shares_allowed,
                            new[i].results[k] = "")

\* C2: when adjust calls on the same key run concurrently, the field always
\* equals the initial value plus the sum of the deltas of the calls that
\* committed, and each call committed exactly when current + delta <= ceiling
\* held for the value present in the table when it wrote.
C2_ConcurrentAdjustsAtomic ==
    /\ []FieldsAreSumOfCommits
    /\ [][WritesCheckedAgainstPresentValue(inflight, inflight', table, table')]_vars

\* C2 witness: two cash adjusts in flight at once; the one invoked second
\* (+1 under ceiling 2) wrote first and committed, so the one invoked first
\* (+2 under ceiling 2) was rejected against the value 1 it then found.
C2_Witness ==
    /\ Len(inflight) >= 2
    /\ inflight[1].source = "control_plane" /\ inflight[2].source = "control_plane"
    /\ inflight[1].event.body = [delta_cash |-> 2, max_allowed_cash |-> 2]
    /\ inflight[2].event.body = [delta_cash |-> 1, max_allowed_cash |-> 2]
    /\ inflight[1].pc = "return" /\ inflight[2].pc = "return"
    /\ inflight[1].resp.kind = "exception"
    /\ Committed(inflight[2].resp)
    /\ CurrentValue(table.summary, "current_cash_managed") = 1

-----------------------------------------------------------------------------
(* News Fetcher Lambda (src/lambda/news_fetcher/main.py)                   *)

\* str.strip() on the headlines that occur
Strip(s) ==
    CASE s = " Up " -> "Up"
      [] s = " "    -> ""
      [] OTHER      -> s

\* datetime.fromtimestamp(ts, tz=utc).isoformat() on the timestamps that occur
IsoFormat(ts) ==
    CASE ts = 1 -> "1970-01-01T00:00:01+00:00"
      [] ts = 2 -> "1970-01-01T00:00:02+00:00"

\* _get_watchlist_symbols: the STOCK# items in key order that pass the filter
\* "attribute_not_exists(is_deleted) OR is_deleted = false" and have a symbol.
SymbolsInKeyOrder == <<"AAPL", "MSFT">>

OnWatchlist(item) ==
    /\ item # EmptyItem
    /\ ~Has(item, "is_deleted") \/ item.is_deleted = FALSE
    /\ Has(item, "symbol") /\ item.symbol # ""

_get_watchlist_symbols(t) ==
    LET kept == SelectSeq(SymbolsInKeyOrder, LAMBDA s : OnWatchlist(t.stocks[s]))
    IN  [i \in DOMAIN kept |-> t.stocks[kept[i]].symbol]

\* _news_hash: the digest is taken over "SYMBOL|headline|published_at";
\* SHA-256 (truncated to 32 hex digits) is collision-resistant, so the digest
\* is identified with the string it is taken over.
_news_hash(symbol, headline, published_at) ==
    Upper(symbol) \o "|" \o Strip(headline) \o "|" \o published_at

\* The sort key of the dedup marker
NewsHashKey(symbol, headline, published_at) ==
    "NEWSHASH#" \o Upper(symbol) \o "#" \o _news_hash(symbol, headline, published_at)

\* A condition that lets every put through.
AttributeNotExistsUnchecked(items, sk) == TRUE

\* ConditionExpression "attribute_not_exists(PK)": no item under the key
AttributeNotExists(items, sk) == sk \notin DOMAIN items

\* _mark_news_seen: conditional put of the marker; True when it was created,
\* False on ConditionalCheckFailedException.
_mark_news_seen(t, symbol, headline, published_at) ==
    LET sk == NewsHashKey(symbol, headline, published_at)
    IN  IF AttributeNotExists(t.newshash, sk)
        THEN [ table |-> [t EXCEPT !.newshash =
                            SetAttr(@, sk, [ symbol       |-> Upper(symbol),
                                             headline     |-> headline,
                                             published_at |-> published_at ])],
               first_seen |-> TRUE ]
        ELSE [ table |-> t, first_seen |-> FALSE ]

\* _fetch_news: the first max_items raw yfinance items, each reduced to
\* symbol / headline / body / published_at, without the completely empty ones.
_fetch_news(symbol, raw_items, max_items) ==
    LET first == SubSeq(raw_items, 1, IF Len(raw_items) < max_items
                                      THEN Len(raw_items) ELSE max_items)
        items == [i \in DOMAIN first |->
                    [ symbol       |-> symbol,
                      headline     |-> Strip(first[i].title),
                      body         |-> Strip(first[i].summary),
                      published_at |-> IsoFormat(first[i].providerPublishTime) ]]
    IN  SelectSeq(items, LAMBDA n : n.headline # "" \/ n.body # "")

NewNewsMessage(news) ==
    Message("SystemOpsTopic",
            [ type         |-> "NEW_NEWS",
              symbol       |-> news.symbol,
              headline     |-> news.headline,
              body         |-> news.body,
              published_at |-> news.published_at ])

\* What a fetcher run has done so far.
FetcherProgress(t, m, pub) == [table |-> t, marks |-> m, published |-> pub]

\* "SET last_fetched_price = :p" when _get_last_price returned a price
\* (last_price is << >> for None, <<p>> for the price p).
UpdateLastPrice(t, symbol, last_price) ==
    IF last_price = << >> THEN t
    ELSE [t EXCEPT !.stocks[symbol] = SetAttr(@, "last_fetched_price", last_price[1])]

\* The inner loop: mark each news item and publish NEW_NEWS for the first-seen.
RECURSIVE FetcherNewsLoop(_, _)
FetcherNewsLoop(st, items) ==
    IF items = << >> THEN st
    ELSE LET news == Head(items)
             r    == _mark_news_seen(st.table, news.symbol, news.headline,
                                     news.published_at)
             m    == Append(st.marks, [news |-> news, first_seen |-> r.first_seen])
         IN  FetcherNewsLoop(
               FetcherProgress(r.table, m,
                   IF r.first_seen THEN Append(st.published, NewNewsMessage(news))
                   ELSE st.published),
               Tail(items))

\* The outer loop over the watchlist symbols; feed[s] is what yfinance returns
\* for s in this run: a last price and the raw news items.
RECURSIVE FetcherSymbolLoop(_, _, _)
FetcherSymbolLoop(st, symbols, feed) ==
    IF symbols = << >> THEN st
    ELSE LET symbol == Head(symbols)
             priced == [st EXCEPT !.table =
                           UpdateLastPrice(@, symbol, feed[symbol].last_price)]
         IN  FetcherSymbolLoop(
               FetcherNewsLoop(priced, _fetch_news(symbol, feed[symbol].news, 10)),
               Tail(symbols), feed)

news_fetcher_handler(t, feed) ==
    LET symbols == _get_watchlist_symbols(t)
        final   == FetcherSymbolLoop(FetcherProgress(t, << >>, << >>), symbols, feed)
    IN  [ table     |-> final.table,
          resp      |-> Response(200, [symbols |-> symbols,
                                       messages_published |-> Len(final.published)]),
          published |-> final.published,
          marks     |-> final.marks ]

-----------------------------------------------------------------------------
(* News specification: watchlist adds and fetcher runs, one after another  *)

MaxNewsOps == 3

RawNews ==
    { [title |-> "Up",   summary |-> "s", providerPublishTime |-> 1],
      [title |-> " Up ", summary |-> "s", providerPublishTime |-> 1],
      [title |-> "Up",   summary |-> "s", providerPublishTime |-> 2],
      [title |-> " ",    summary |-> "",  providerPublishTime |-> 1] }

RawNewsLists ==
    {<< >>} \cup {<<n>> : n \in RawNews}
            \cup {<<n1, n2>> : n1 \in RawNews, n2 \in RawNews}

LastPrices == {<< >>, <<5>>}

Feeds ==
    { [s \in Symbols |-> IF s = "AAPL" THEN [last_price |-> p, news |-> l]
                         ELSE [last_price |-> << >>, news |-> l2]] :
        p \in LastPrices, l \in RawNewsLists,
        l2 \in {<< >>, << [title |-> "Up", summary |-> "s", providerPublishTime |-> 1] >>} }

NewsAddWatchlist ==
    /\ ops < MaxNewsOps
    /\ \E s \in RawSymbols :
          ControlPlaneCall(Post(<<"watchlist">>, [symbol |-> s, shares_managed |-> 0]))

FetcherRun ==
    /\ ops < MaxNewsOps
    /\ \E feed \in Feeds :
          LET out == news_fetcher_handler(table, feed)
          IN  /\ table' = out.table
              /\ req' = [source |-> "news_fetcher", feed |-> feed]
              /\ resp' = out.resp
              /\ published' = out.published
              /\ marks' = out.marks
              /\ UNCHANGED <<bucket, today, clock, queue>>
              /\ ops' = ops + 1
              /\ UNCHANGED inflight

NewsNext == NewsAddWatchlist \/ FetcherRun

NewsSpec == Init /\ [][NewsNext]_vars

-----------------------------------------------------------------------------
(* Claims about the dedup gate, calls one after another                    *)

\* The marker key of a recorded _mark_news_seen call
MarkKey(mark) ==
    NewsHashKey(mark.news.symbol, mark.news.headline, mark.news.published_at)

SameInputs(n1, n2) ==
    /\ n1.symbol = n2.symbol
    /\ n1.headline = n2.headline
    /\ n1.published_at = n2.published_at

\* A marker for the k-th call's fingerprint existed when the call was made:
\* in the table at the start of the run, or from an earlier call of the run.
MarkedBefore(t, m, k) ==
    \/ MarkKey(m[k]) \in DOMAIN t.newshash
    \/ \E j \in 1..(k - 1) : MarkKey(m[j]) = MarkKey(m[k])

\* The NEW_NEWS events among `pub` that carry the given news item
NewNewsFor(pub, news) ==
    {i \in DOMAIN pub : pub[i].msg.type = "NEW_NEWS" /\ SameInputs(pub[i].msg, news)}

\* C5: two markSeen calls made one after the other with the same (symbol,
\* headline, published_at), the first on a fingerprint not yet recorded,
\* return FirstSeen then AlreadySeen, and the run publishes NEW_NEWS for that
\* item once, for the first call only; a call on a fingerprint that is already
\* recorded returns AlreadySeen.
C5_MarkSeenTwice ==
    [][ req'.source = "news_fetcher" =>
          /\ \A k \in 1..(Len(marks') - 1) :
               ( SameInputs(marks'[k].news, marks'[k + 1].news)
                 /\ ~MarkedBefore(table, marks', k) ) =>
                    /\ marks'[k].first_seen
                    /\ ~marks'[k + 1].first_seen
                    /\ Cardinality(NewNewsFor(published', marks'[k].news)) = 1
                    /\ MarkKey(marks'[k]) \in DOMAIN table'.newshash
          /\ \A k \in DOMAIN marks' :
               MarkedBefore(table, marks', k) => ~marks'[k].first_seen
          /\ Len(published') = Cardinality({k \in DOMAIN marks' : marks'[k].first_seen})
      ]_vars

\* C5 witness: a run that presented the same item twice in a row ("Up" and
\* " Up " at the same time), got FirstSeen then AlreadySeen and published once.
C5_Witness ==
    /\ req.source = "news_fetcher"
    /\ req.feed["AAPL"].news =
         << [title |-> "Up",   summary |-> "s", providerPublishTime |-> 1],
            [title |-> " Up ", summary |-> "s", providerPublishTime |-> 1] >>
    /\ Len(marks) >= 2
    /\ SameInputs(marks[1].news, marks[2].news)
    /\ marks[1].first_seen /\ ~marks[2].first_seen
    /\ Cardinality(NewNewsFor(published, marks[1].news)) = 1

-----------------------------------------------------------------------------
(* Concurrent fetcher runs.  A run queries the watchlist, then for each    *)
(* symbol writes the last price and fetches the news, and for each news    *)
(* item makes its conditional put and, when that created the marker,       *)
(* publishes NEW_NEWS.  Steps of different runs interleave; each DynamoDB   *)
(* call is atomic.                                                          *)

MaxFetchers == 2

ConcurrentFeeds ==
    { [s \in Symbols |-> IF s = "AAPL" THEN [last_price |-> p, news |-> l]
                         ELSE [last_price |-> << >>, news |-> << >>]] :
        p \in {<< >>},
        l \in { << [title |-> "Up", summary |-> "s", providerPublishTime |-> 1] >>,
                << [title |-> " Up ", summary |-> "s", providerPublishTime |-> 1],
                   [title |-> "Up", summary |-> "s", providerPublishTime |-> 2] >> } }
    \cup
    { [s \in Symbols |-> IF s = "AAPL"
                         THEN [last_price |-> <<5>>,
                               news |-> << [title |-> "Up", summary |-> "s",
                                            providerPublishTime |-> 1] >>]
                         ELSE [last_price |-> << >>, news |-> << >>]] }

StartedFetcher(feed) ==
    [source |-> "news_fetcher", feed |-> feed, pc |-> "query",
     symbols |-> << >>, items |-> << >>, marks |-> << >>, published |-> << >>]

\* Where a run continues once the current news item is dealt with.
AfterItem(items, symbols) ==
    IF items # << >> THEN "mark"
    ELSE IF symbols # << >> THEN "symbol"
    ELSE "return"

ConcurrentAddWatchlist ==
    /\ ops < MaxNewsOps
    /\ ControlPlaneCall(Post(<<"watchlist">>, [symbol |-> "aapl", shares_managed |-> 0]))

FetcherInvoke ==
    /\ Len(inflight) < MaxFetchers
    /\ \E feed \in ConcurrentFeeds :
          inflight' = Append(inflight, StartedFetcher(feed))
    /\ UNCHANGED <<table, req, resp, published, ops, marks, bucket, today, clock, queue>>

FetcherQuery ==
    \E i \in DOMAIN inflight :
        /\ inflight[i].source = "news_fetcher"
        /\ inflight[i].pc = "query"
        /\ LET symbols == _get_watchlist_symbols(table)
           IN  inflight' = [inflight EXCEPT ![i].symbols = symbols,
                                            ![i].pc = AfterItem(<< >>, symbols)]
        /\ UNCHANGED <<table, req, resp, published, ops, marks, bucket, today, clock, queue>>

FetcherSymbol ==
    \E i \in DOMAIN inflight :
        /\ inflight[i].source = "news_fetcher"
        /\ inflight[i].pc = "symbol"
        /\ LET inv    == inflight[i]
               symbol == Head(inv.symbols)
               items  == _fetch_news(symbol, inv.feed[symbol].news, 10)
           IN  /\ table' = UpdateLastPrice(table, symbol, inv.feed[symbol].last_price)
               /\ inflight' = [inflight EXCEPT
                     ![i].symbols = Tail(inv.symbols),
                     ![i].items = items,
                     ![i].pc = AfterItem(items, Tail(inv.symbols))]
        /\ UNCHANGED <<req, resp, published, ops, marks, bucket, today, clock, queue>>

\* The conditional put of _mark_news_seen for the run's next news item
FetcherMark ==
    \E i \in DOMAIN inflight :
        /\ inflight[i].source = "news_fetcher"
        /\ inflight[i].pc = "mark"
        /\ LET inv  == inflight[i]
               news == Head(inv.items)
               r    == _mark_news_seen(table, news.symbol, news.headline,
                                       news.published_at)
           IN  /\ table' = r.table
               /\ inflight' = [inflight EXCEPT
                     ![i].marks = Append(@, [news |-> news, first_seen |-> r.first_seen]),
                     ![i].items = IF r.first_seen THEN @ ELSE Tail(@),
                     ![i].pc = IF r.first_seen THEN "publish"
                               ELSE AfterItem(Tail(inv.items), inv.symbols)]
        /\ UNCHANGED <<req, resp, published, ops, marks, bucket, today, clock, queue>>

\* sns.publish of the NEW_NEWS event for an item that was first seen
FetcherPublish ==
    \E i \in DOMAIN inflight :
        /\ inflight[i].source = "news_fetcher"
        /\ inflight[i].pc = "publish"
        /\ LET inv == inflight[i]
           IN  inflight' = [inflight EXCEPT
                     ![i].published = Append(@, NewNewsMessage(Head(inv.items))),
                     ![i].items = Tail(@),
                     ![i].pc = AfterItem(Tail(inv.items), inv.symbols)]
        /\ UNCHANGED <<table, req, resp, published, ops, marks, bucket, today, clock, queue>>

FetcherReturn ==
    \E i \in DOMAIN inflight :
        /\ inflight[i].source = "news_fetcher"
        /\ inflight[i].pc = "return"
        /\ inflight' = [inflight EXCEPT ![i].pc = "done"]
        /\ req' = [source |-> "news_fetcher", feed |-> inflight[i].feed]
        /\ resp' = Response(200, [messages_published |-> Len(inflight[i].published)])
        /\ published' = inflight[i].published
        /\ marks' = inflight[i].marks
        /\ UNCHANGED <<bucket, today, clock, queue>>
        /\ ops' = ops + 1
        /\ UNCHANGED table

ConcurrentNewsNext ==
    \/ ConcurrentAddWatchlist \/ FetcherInvoke \/ FetcherQuery \/ FetcherSymbol
    \/ FetcherMark \/ FetcherPublish \/ FetcherReturn

ConcurrentNewsSpec == Init /\ [][ConcurrentNewsNext]_vars

\* The fingerprints the concurrent runs can present
PresentedKeys ==
    { NewsHashKey("AAPL", "Up", IsoFormat(ts)) : ts \in {1, 2} }

\* The first-seen results, over all runs, of the calls on one fingerprint
\* <<i, k>> for the k-th _mark_news_seen call of run i
AllCalls ==
    UNION { {<<i, k>> : k \in DOMAIN inflight[i].marks} : i \in DOMAIN inflight }

\* <<i, k>> for the k-th message published by run i
AllPublished ==
    UNION { {<<i, k>> : k \in DOMAIN inflight[i].published} : i \in DOMAIN inflight }

CallsOn(key) ==
    { c \in AllCalls : MarkKey(inflight[c[1]].marks[c[2]]) = key }

FirstSeenCalls(key) ==
    { c \in CallsOn(key) : inflight[c[1]].marks[c[2]].first_seen }

\* The NEW_NEWS events, over all runs, published for one fingerprint
NewNewsPublished(key) ==
    { c \in AllPublished :
        LET msg == inflight[c[1]].published[c[2]].msg
        IN  /\ msg.type = "NEW_NEWS"
            /\ NewsHashKey(msg.symbol, msg.headline, msg.published_at) = key }

\* C6: however many fetcher runs present the same fingerprint concurrently,
\* once any of them has made its markSeen call exactly one call has returned
\* FirstSeen and the marker exists under the fingerprint's key; at most one
\* NEW_NEWS event is published for it.
C6_ConcurrentDedup ==
    \A key \in PresentedKeys :
        /\ CallsOn(key) # {} =>
              /\ Cardinality(FirstSeenCalls(key)) = 1
              /\ key \in DOMAIN table.newshash
        /\ CallsOn(key) = {} => key \notin DOMAIN table.newshash
        /\ Cardinality(NewNewsPublished(key)) <= 1

\* C6 witness: two runs have both made their call on the same fingerprint
\* before either returned; the second run's call came first and won.
C6_Witness ==
    /\ Len(inflight) >= 2
    /\ inflight[1].pc \in {"mark", "publish", "return"}
    /\ inflight[2].pc \in {"mark", "publish", "return"}
    /\ Len(inflight[1].marks) >= 1 /\ Len(inflight[2].marks) >= 1
    /\ MarkKey(inflight[1].marks[1]) = MarkKey(inflight[2].marks[1])
    /\ ~inflight[1].marks[1].first_seen
    /\ inflight[2].marks[1].first_seen

-----------------------------------------------------------------------------
(* Sentiment Scorer Lambda, random variant                                 *)
(* (src/lambda/sentiment_scorer/main.py)                                   *)

\* What handling one S3 record did: the table after it, whether a sentiment
\* was applied (a record without bucket or key is skipped), the action and the
\* messages published.
ScorerResult(t, applied, action, pub) ==
    [table |-> t, applied |-> applied, action |-> action, published |-> pub]

\* The body of the handler's loop for one record; record.r is the value
\* _sample_random_sentiment returned for it.
ScorerRecord(record, t) ==
    IF record.bucket = "" \/ record.key = ""
    THEN ScorerResult(t, FALSE, "NONE", << >>)
    ELSE LET symbol        == record.symbol
             item          == t.stocks[symbol]
             current_score == Get(item, "current_level_score", 0)
             threshold_abs == Get(item, "threshold_abs", 1)
             new_score     == current_score + record.r
             action        == ThresholdCheck(new_score, threshold_abs)
             updated       == SetAttr(SetAttr(item, "current_level_score", new_score),
                                      "threshold_abs", threshold_abs)
         IN  ScorerResult(
               [t EXCEPT !.stocks[symbol] = updated],
               TRUE, action,
               IF action # "NONE"
               THEN << DecisionMessage(symbol, action, new_score, threshold_abs,
                                       "SCORE_THRESHOLD") >>
               ELSE << >>)

RECURSIVE ScorerLoop(_, _)
ScorerLoop(records, t) ==
    IF records = << >> THEN << >>
    ELSE LET r == ScorerRecord(Head(records), t)
         IN  << r >> \o ScorerLoop(Tail(records), r.table)

sentiment_scorer_handler(t, records) ==
    LET results   == ScorerLoop(records, t)
        decisions == Cardinality({i \in DOMAIN results : results[i].action # "NONE"})
    IN  Outcome(IF results = << >> THEN t ELSE results[Len(results)].table,
                Response(200, [decisions_emitted |-> decisions]),
                Concat([i \in DOMAIN results |-> results[i].published]))

-----------------------------------------------------------------------------
(* Sentiment specification: watchlist add, set threshold, sentiment        *)
(* applications from the control plane and from the scorer                 *)

MaxSentimentOps == 3

DeltaScores == {-1, 1, 2}

ThresholdHints == {0, 2}

SentimentBodies ==
    {[symbol |-> "aapl", delta_score |-> d] : d \in DeltaScores}
    \cup {[symbol |-> "aapl", delta_score |-> d, threshold_abs |-> h] :
            d \in DeltaScores, h \in ThresholdHints}
    \cup {[symbol |-> "MSFT", delta_score |-> 1, reason |-> "MANUAL"],
          [delta_score |-> 1], [symbol |-> "aapl"]}

ThresholdBodies == {[threshold_abs |-> 0], [threshold_abs |-> 1], EmptyItem}

SampledSentiments == {1, 0, -1}

ScorerRecords ==
    {[bucket |-> "S", key |-> "news/AAPL/1.json", symbol |-> "AAPL", r |-> r] :
        r \in SampledSentiments}
    \cup {[bucket |-> "S", key |-> "", symbol |-> "AAPL", r |-> 1]}

ScorerBatches ==
    {<<n>> : n \in ScorerRecords} \cup {<<n1, n2>> : n1 \in ScorerRecords, n2 \in ScorerRecords}

SentimentAddWatchlist ==
    /\ ops < MaxSentimentOps
    /\ ControlPlaneCall(Post(<<"watchlist">>, [symbol |-> "aapl", shares_managed |-> 0]))

CPSetThreshold ==
    /\ ops < MaxSentimentOps
    /\ \E body \in ThresholdBodies :
          ControlPlaneCall(Post(<<"watchlist", "aapl", "threshold">>, body))

CPApplySentiment ==
    /\ ops < MaxSentimentOps
    /\ \E body \in SentimentBodies :
          ControlPlaneCall(Post(<<"sentiment">>, body))

ScorerRun ==
    /\ ops < MaxSentimentOps
    /\ \E records \in ScorerBatches :
          LET out == sentiment_scorer_handler(table, records)
          IN  /\ table' = out.table
              /\ req' = [source |-> "sentiment_scorer", records |-> records]
              /\ resp' = out.resp
              /\ published' = out.published
              /\ marks' = << >>
              /\ UNCHANGED <<bucket, today, clock, queue>>
              /\ ops' = ops + 1
              /\ UNCHANGED inflight

SentimentNext ==
    SentimentAddWatchlist \/ CPSetThreshold \/ CPApplySentiment \/ ScorerRun

SentimentSpec == Init /\ [][SentimentNext]_vars

-----------------------------------------------------------------------------
(* Claims about sentiment applications                                     *)

\* A control-plane sentiment call that passes validation
IsSentimentCall(r) ==
    /\ r.source = "control_plane"
    /\ r.event.httpMethod = "POST"
    /\ r.event.path = <<"sentiment">>
    /\ Has(r.event.body, "symbol") /\ r.event.body.symbol # ""
    /\ Has(r.event.body, "delta_score")

\* The decision rule as the specification words it
ExpectedAction(newScore, effectiveThreshold) ==
    IF newScore >= effectiveThreshold THEN "BUY"
    ELSE IF newScore <= -effectiveThreshold THEN "SELL"
    ELSE "NONE"

StoredScore(item) == IF Has(item, "current_level_score") THEN item.current_level_score ELSE 0

\* An entry holding the given score and threshold, and the answer of the
\* sentiment endpoint to a delta applied to it
EntryWith(score, threshold) ==
    [EmptyTable EXCEPT !.stocks["AAPL"] =
        [current_level_score |-> score, threshold_abs |-> threshold]]

AnswerFor(score, delta, threshold) ==
    _handle_apply_sentiment(EntryWith(score, threshold),
                            [symbol |-> "AAPL", delta_score |-> delta]).resp.body

DecisionExamples ==
    /\ AnswerFor(2, 1, 3).new_score = 3 /\ AnswerFor(2, 1, 3).action = "BUY"
    /\ AnswerFor(-2, -1, 3).new_score = -3 /\ AnswerFor(-2, -1, 3).action = "SELL"
    /\ AnswerFor(0, 1, 3).new_score = 1 /\ AnswerFor(0, 1, 3).action = "NONE"

\* The table each record of a scorer batch started from.
TableBeforeScorerRecord(records, t, i) ==
    IF i = 1 THEN t ELSE ScorerLoop(records, t)[i - 1].table

\* The decision events among `pub`
Decisions(pub) == SelectSeq(pub, LAMBDA m : m.msg.type = "AUTO_TRADE_DECISION")

\* C7: the action of a sentiment application is decided on the score after
\* the update: BUY if newScore >= effectiveThreshold, else SELL if newScore <=
\* -effectiveThreshold, else NONE, a function of (currentScore, delta,
\* threshold) only; (2, 1, 3) gives 3 and BUY, (-2, -1, 3) gives -3 and SELL,
\* (0, 1, 3) gives 1 and NONE; with effectiveThreshold 0 and both conditions
\* true the action is BUY.  Holds for the control plane and for the scorer.
C7_DecisionRule ==
    /\ []DecisionExamples
    /\ [][ /\ (IsSentimentCall(req') /\ Committed(resp')) =>
                LET symbol    == Upper(req'.event.body.symbol)
                    newScore  == StoredScore(table.stocks[symbol])
                                   + req'.event.body.delta_score
                    threshold == resp'.body.threshold_abs
                IN  /\ resp'.body.new_score = newScore
                    /\ resp'.body.action = ExpectedAction(newScore, threshold)
                    /\ (threshold = 0 /\ newScore = 0) => resp'.body.action = "BUY"
           /\ req'.source = "sentiment_scorer" =>
                LET results == ScorerLoop(req'.records, table)
                IN  \A i \in DOMAIN results :
                      results[i].applied =>
                        LET before    == TableBeforeScorerRecord(req'.records, table, i)
                            symbol    == req'.records[i].symbol
                            newScore  == StoredScore(before.stocks[symbol])
                                           + req'.records[i].r
                            threshold == results[i].table.stocks[symbol].threshold_abs
                        IN  /\ results[i].table.stocks[symbol].current_level_score
                                 = newScore
                            /\ results[i].action = ExpectedAction(newScore, threshold)
         ]_vars

\* C7 witness: the degenerate tie: effective threshold 0, new score 0 (both
\* conditions true), answered BUY.
C7_Witness ==
    /\ IsSentimentCall(req) /\ Committed(resp)
    /\ resp.body.threshold_abs = 0
    /\ resp.body.new_score = 0
    /\ resp.body.action = "BUY"

\* The threshold the claim's wording selects: the stored one whenever the
\* entry has one, the hint otherwise.
StoredElseHint(item, hint) ==
    IF Has(item, "threshold_abs") THEN item.threshold_abs ELSE hint

\* The threshold selected when a stored 0 counts as not set.
StoredNonZeroElseHint(item, hint) ==
    IF Has(item, "threshold_abs") /\ item.threshold_abs # 0
    THEN item.threshold_abs ELSE hint

\* The request's thresholdHint (3 when the body has none)
HintOf(body) == IF Has(body, "threshold_abs") THEN body.threshold_abs ELSE 3

\* A sentiment call that used `effective` as its threshold: the answer and the
\* entry carry it, the entry's score is oldScore + delta (absent entry: 0).
AppliedWithThreshold(before, after, r, body, effective) ==
    LET symbol == Upper(body.symbol)
    IN  /\ r.body.threshold_abs = effective
        /\ after.stocks[symbol].threshold_abs = effective
        /\ after.stocks[symbol].current_level_score
             = StoredScore(before.stocks[symbol]) + body.delta_score
        /\ r.body.action = ExpectedAction(r.body.new_score, effective)

C9_HistoryAppendedEveryTime ==
    [][ /\ Len(table'.scores) >= Len(table.scores)
        /\ SubSeq(table'.scores, 1, Len(table.scores)) = table.scores
        /\ (IsSentimentCall(req') /\ Committed(resp')) =>
              LET symbol == Upper(req'.event.body.symbol)
                  old    == StoredScore(table.stocks[symbol])
              IN  table'.scores = Append(table.scores,
                     [ symbol        |-> symbol,
                       old_score     |-> old,
                       delta_score   |-> req'.event.body.delta_score,
                       new_score     |-> old + req'.event.body.delta_score,
                       threshold_abs |-> resp'.body.threshold_abs,
                       reason        |-> IF Has(req'.event.body, "reason")
                                         THEN req'.event.body.reason ELSE "FINBERT" ])
        /\ req'.source = "sentiment_scorer" =>
              LET results == ScorerLoop(req'.records, table)
              IN  Len(table'.scores) = Len(table.scores)
                    + Cardinality({i \in DOMAIN results : results[i].applied})
      ]_vars

\* The decision event a call must emit for `action` on `symbol`
IsDecisionFor(m, symbol, action, score, threshold) ==
    /\ m.msg.type = "AUTO_TRADE_DECISION"
    /\ m.msg.symbol = symbol
    /\ m.msg.action = action
    /\ m.msg.score = score
    /\ m.msg.threshold_abs = threshold

\* C10: a sentiment application whose action is BUY or SELL emits exactly one
\* AUTO_TRADE_DECISION event carrying that action, the new score and the
\* effective threshold; one whose action is NONE emits none; the action
\* returned to the caller is the action of the emitted event.
C10_OneDecisionPerCrossing ==
    [][ /\ (IsSentimentCall(req') /\ Committed(resp')) =>
              LET symbol == Upper(req'.event.body.symbol)
                  entry  == table'.stocks[symbol]
                  action == ExpectedAction(entry.current_level_score,
                                           entry.threshold_abs)
                  events == Decisions(published')
              IN  /\ resp'.body.action = action
                  /\ action = "NONE" => events = << >>
                  /\ action # "NONE" =>
                        /\ Len(events) = 1
                        /\ IsDecisionFor(events[1], symbol, resp'.body.action,
                               entry.current_level_score, entry.threshold_abs)
        /\ req'.source = "sentiment_scorer" =>
              LET results == ScorerLoop(req'.records, table)
                  crossed == SelectSeq([i \in DOMAIN results |->
                                 [i |-> i, after |-> results[i].table,
                                  applied |-> results[i].applied]],
                               LAMBDA x : x.applied /\
                                 ExpectedAction(
                                   x.after.stocks[req'.records[x.i].symbol].current_level_score,
                                   x.after.stocks[req'.records[x.i].symbol].threshold_abs)
                                 # "NONE")
                  events  == Decisions(published')
              IN  /\ Len(events) = Len(crossed)
                  /\ resp'.body.decisions_emitted = Len(crossed)
                  /\ \A n \in DOMAIN crossed :
                       LET symbol == req'.records[crossed[n].i].symbol
                           entry  == crossed[n].after.stocks[symbol]
                       IN  IsDecisionFor(events[n], symbol,
                               ExpectedAction(entry.current_level_score,
                                              entry.threshold_abs),
                               entry.current_level_score, entry.threshold_abs)
      ]_vars

\* C10 witness: a control-plane sentiment call that crossed the lower
\* threshold, answered SELL and published one SELL decision.
C10_Witness ==
    /\ IsSentimentCall(req) /\ Committed(resp)
    /\ resp.body.action = "SELL"
    /\ Len(published) = 1
    /\ published[1].msg.type = "AUTO_TRADE_DECISION"
    /\ published[1].msg.action = "SELL"
    /\ published[1].msg.score = resp.body.new_score

-----------------------------------------------------------------------------
(* Claims about when decisions are emitted and about the two sentiment     *)
(* sources                                                                 *)

\* The score is strictly inside the band (-threshold, threshold)
InsideBand(score, threshold) == -threshold < score /\ score < threshold

\* The score moved from strictly inside the band to at or beyond a threshold
Crossed(oldScore, newScore, threshold) ==
    InsideBand(oldScore, threshold) /\ ~InsideBand(newScore, threshold)

\* The scorer records of a batch on which the score crossed (every record
\* counts when the threshold is not positive)
ScorerCrossings(records, t) ==
    LET results == ScorerLoop(records, t)
    IN  { i \in DOMAIN results :
            /\ results[i].applied
            /\ LET symbol == records[i].symbol
                   before == TableBeforeScorerRecord(records, t, i).stocks[symbol]
                   after  == results[i].table.stocks[symbol]
               IN  \/ after.threshold_abs <= 0
                   \/ Crossed(StoredScore(before), after.current_level_score,
                              after.threshold_abs) }

\* C11, as claimed, call by call: a step that is not a sentiment application
\* emits no decision, and a sentiment application emits no more decisions
\* than the number of times it moved the score from strictly inside the band
\* (-threshold, threshold) to at or beyond +threshold or -threshold.  Over a
\* sequence of calls this bounds the number of decisions by the number of
\* crossings; for a sequence of one call it is the claim itself.  Control-plane
\* calls are held to it only for a positive threshold, where the band is not
\* empty.
C11_DecisionsOnlyOnCrossing ==
    [][ /\ (IsSentimentCall(req') /\ Committed(resp')) =>
              LET symbol == Upper(req'.event.body.symbol)
                  old    == StoredScore(table.stocks[symbol])
                  entry  == table'.stocks[symbol]
              IN  entry.threshold_abs > 0 =>
                    Len(Decisions(published'))
                      <= IF Crossed(old, entry.current_level_score,
                                    entry.threshold_abs)
                         THEN 1 ELSE 0
        /\ req'.source = "sentiment_scorer" =>
              Len(Decisions(published'))
                <= Cardinality(ScorerCrossings(req'.records, table))
        /\ ( ~(IsSentimentCall(req') /\ Committed(resp'))
             /\ req'.source # "sentiment_scorer" ) =>
              Decisions(published') = << >>
      ]_vars

\* The body of a control-plane sentiment request, with or without a hint
\* (<< >> for none, <<h>> for the hint h)
SentimentRequest(symbol, delta, hint) ==
    IF hint = << >> THEN [symbol |-> symbol, delta_score |-> delta]
    ELSE [symbol |-> symbol, delta_score |-> delta, threshold_abs |-> hint[1]]

\* Both paths applied to the same entry: the new score and the action of
\* each, and the threshold each used.
BothPaths(t, symbol, delta, hint) ==
    LET cp == _handle_apply_sentiment(t, SentimentRequest(symbol, delta, hint))
        sc == ScorerRecord([bucket |-> "S", key |-> "k", symbol |-> symbol,
                            r |-> delta], t)
    IN  [ cpScore     |-> cp.resp.body.new_score,
          cpAction    |-> cp.resp.body.action,
          cpThreshold |-> cp.table.stocks[symbol].threshold_abs,
          scScore     |-> sc.table.stocks[symbol].current_level_score,
          scAction    |-> sc.action,
          scThreshold |-> sc.table.stocks[symbol].threshold_abs ]

\* Same new score, same rule, each on its own threshold
SameScoreAndRule(t, symbol, delta, both) ==
    /\ both.cpScore = StoredScore(t.stocks[symbol]) + delta
    /\ both.scScore = both.cpScore
    /\ both.cpAction = ExpectedAction(both.cpScore, both.cpThreshold)
    /\ both.scAction = ExpectedAction(both.scScore, both.scThreshold)

SampledDeltas == {-1, 0, 1}

RequestHints == {<< >>, <<0>>, <<2>>}

-----------------------------------------------------------------------------
(* Dates (datetime.date, strftime / strptime "%Y-%m-%d")                   *)

\* Dates are day numbers, day 0 being 1970-01-01; the calendar covers the
\* days FirstDay..LastDay of 1970.
FirstDay == 19

LastDay == 50

CalendarDays == 0..LastDay

MonthLengths == <<31, 28, 31, 30, 31, 30, 31, 31, 30, 31, 30, 31>>

Digit(n) ==
    CASE n = 0 -> "0" [] n = 1 -> "1" [] n = 2 -> "2" [] n = 3 -> "3"
      [] n = 4 -> "4" [] n = 5 -> "5" [] n = 6 -> "6" [] n = 7 -> "7"
      [] n = 8 -> "8" [] n = 9 -> "9"

TwoDigits(n) == Digit(n \div 10) \o Digit(n % 10)

\* <<month, day of month>> of the d-th day (from 0) counted from month m
RECURSIVE MonthAndDay(_, _)
MonthAndDay(d, m) ==
    IF d < MonthLengths[m] THEN <<m, d + 1>>
    ELSE MonthAndDay(d - MonthLengths[m], m + 1)

\* date.isoformat(): "yyyy-mm-dd"
DateString(d) ==
    LET md == MonthAndDay(d, 1)
    IN  "1970-" \o TwoDigits(md[1]) \o "-" \o TwoDigits(md[2])

\* The date strings of the calendar, by day
DateStrings == [d \in CalendarDays |-> DateString(d)]

\* datetime.isoformat() of the first second of day d
IsoTimestamp(d) == DateStrings[d] \o "T00:00:01+00:00"

IsoTimestamps == [d \in CalendarDays |-> IsoTimestamp(d)]

\* published_at[:10] on the timestamps that occur
FirstTen(published_at) ==
    IF \E d \in CalendarDays : published_at = IsoTimestamps[d]
    THEN DateStrings[CHOOSE d \in CalendarDays : published_at = IsoTimestamps[d]]
    ELSE published_at

\* datetime.strptime(date_str, "%Y-%m-%d").date(): <<d>> for the date d, and
\* << >> where strptime raises ValueError (obj_date = None)
ParseDate(date_str) ==
    IF \E d \in CalendarDays : date_str = DateStrings[d]
    THEN << CHOOSE d \in CalendarDays : date_str = DateStrings[d] >>
    ELSE << >>

\* timedelta(weeks = n), in days
Weeks(n) == 7 * n

-----------------------------------------------------------------------------
(* The bucket S: keys are the "/"-separated parts                          *)
(* <<"news", symbol, yyyy-mm-dd, news_id>>                                 *)

BUCKET_NAME == "S"

\* s3.put_object: a new object carries no tag
PutObject(b, key) ==
    [k \in DOMAIN b \cup {key} |-> IF k = key THEN [deleted |-> FALSE] ELSE b[k]]

\* A delete that removes nothing.
DeleteObjectKeeping(b, key) == b

\* s3.delete_object: succeeds whether or not the key exists
DeleteObject(b, key) == [k \in DOMAIN b \ {key} |-> b[k]]

\* A tagging call that flips the tag.
PutObjectTaggingFlipping(b, key) ==
    IF key \in DOMAIN b THEN [b EXCEPT ![key] = [deleted |-> ~@.deleted]] ELSE b

\* s3.put_object_tagging with TagSet deleted=true: raises NoSuchKey on a
\* missing key, which the caller's except clause swallows
PutObjectTagging(b, key) ==
    IF key \in DOMAIN b THEN [b EXCEPT ![key] = [deleted |-> TRUE]] ELSE b

\* Keys under the prefix "news/<symbol>/"
KeysWithPrefix(b, symbol) ==
    {k \in DOMAIN b : k[1] = "news" /\ k[2] = symbol}

\* Key order among the keys of one prefix: zero-padded dates sort as dates,
\* then by news id
KeyBefore(k1, k2) ==
    LET d1 == ParseDate(k1[3])
        d2 == ParseDate(k2[3])
    IN  IF d1 = d2 THEN k1[4] <= k2[4]
        ELSE IF d1 = << >> THEN FALSE
        ELSE IF d2 = << >> THEN TRUE
        ELSE d1[1] < d2[1]

RECURSIVE InKeyOrder(_)
InKeyOrder(keys) ==
    IF keys = {} THEN << >>
    ELSE LET first == CHOOSE k \in keys : \A o \in keys : KeyBefore(k, o)
         IN  << first >> \o InKeyOrder(keys \ {first})

\* paginator.paginate(Bucket, Prefix): the listed keys, in key order
ListObjects(b, symbol) == InKeyOrder(KeysWithPrefix(b, symbol))

-----------------------------------------------------------------------------
(* News Writer Lambda (src/lambda/news_writer/main.py)                     *)

\* str(uuid.uuid4()) of the i-th record of the n-th invocation: never the
\* same twice
Uuid4(n, i) == 2 * n + i

NewsKey(symbol, published_at, news_id) ==
    <<"news", symbol, FirstTen(published_at), news_id>>

RECURSIVE NewsWriterLoop(_, _, _, _, _)
NewsWriterLoop(b, records, now, n, i) ==
    IF records = << >> THEN [bucket |-> b, published |-> << >>, written |-> 0]
    ELSE LET msg == Head(records)
         IN  IF Get(msg, "type", "") # "NEW_NEWS"
             THEN NewsWriterLoop(b, Tail(records), now, n, i + 1)
             ELSE LET symbol       == Get(msg, "symbol", "UNKNOWN")
                      published_at == IF Get(msg, "published_at", "") # ""
                                      THEN msg.published_at
                                      ELSE IsoTimestamp(now)
                      key          == NewsKey(symbol, published_at, Uuid4(n, i))
                      rest         == NewsWriterLoop(PutObject(b, key), Tail(records),
                                                     now, n, i + 1)
                  IN  [ bucket    |-> rest.bucket,
                        published |->
                            (IF SYSTEM_OPS_TOPIC_ARN = "" THEN << >>
                             ELSE << Message("SystemOpsTopic",
                                             [type   |-> "NEWS_STORED",
                                              symbol |-> symbol,
                                              bucket |-> BUCKET_NAME,
                                              key    |-> key]) >>)
                            \o rest.published,
                        written   |-> rest.written + 1 ]

news_writer_handler(b, records, now, n) ==
    LET out == NewsWriterLoop(b, records, now, n, 0)
    IN  [ bucket    |-> out.bucket,
          resp      |-> Response(200, [objects_written |-> out.written]),
          published |-> out.published ]

-----------------------------------------------------------------------------
(* Retention cleanup: the soft-delete Lambda's _cleanup_news_for_symbol    *)
(* (src/lambda/soft_delete/main.py)                                        *)

CleanupCounts(b, soft, hard) == [bucket |-> b, soft_tagged |-> soft, hard_deleted |-> hard]

\* The loop body for one listed key
SoftDeleteCleanupObject(st, key, now) ==
    IF Len(key) < 3 THEN st
    ELSE LET obj_date        == ParseDate(key[3])
             three_weeks_ago == now - Weeks(3)
             six_weeks_ago   == now - Weeks(6)
         IN  IF obj_date # << >> /\ obj_date[1] <= six_weeks_ago
             THEN CleanupCounts(DeleteObject(st.bucket, key),
                                st.soft_tagged, st.hard_deleted + 1)
             ELSE IF obj_date = << >> \/ obj_date[1] <= three_weeks_ago
             THEN IF key \in DOMAIN st.bucket
                  THEN CleanupCounts(PutObjectTagging(st.bucket, key),
                                     st.soft_tagged + 1, st.hard_deleted)
                  ELSE st
             ELSE st

RECURSIVE SoftDeleteCleanupLoop(_, _, _)
SoftDeleteCleanupLoop(st, keys, now) ==
    IF keys = << >> THEN st
    ELSE SoftDeleteCleanupLoop(SoftDeleteCleanupObject(st, Head(keys), now),
                               Tail(keys), now)

SoftDeleteCleanup(b, symbol, now) ==
    IF BUCKET_NAME = "" THEN CleanupCounts(b, 0, 0)
    ELSE SoftDeleteCleanupLoop(CleanupCounts(b, 0, 0), ListObjects(b, symbol), now)

-----------------------------------------------------------------------------
(* Retention cleanup: the daily sweep's _cleanup_news_for_symbol           *)
(* (src/lambda/news_retention_cleaner/main.py)                             *)

\* The sweep's loop body with both age tests made strict.
SweepCleanupObjectStrict(st, key, now) ==
    IF Len(key) < 3 THEN st
    ELSE LET obj_date        == ParseDate(key[3])
             three_weeks_ago == now - Weeks(3)
             six_weeks_ago   == now - Weeks(6)
         IN  IF obj_date # << >> /\ obj_date[1] < six_weeks_ago
             THEN CleanupCounts(DeleteObject(st.bucket, key),
                                st.soft_tagged, st.hard_deleted + 1)
             ELSE IF obj_date = << >> \/ obj_date[1] < three_weeks_ago
             THEN IF key \in DOMAIN st.bucket
                  THEN CleanupCounts(PutObjectTagging(st.bucket, key),
                                     st.soft_tagged + 1, st.hard_deleted)
                  ELSE st
             ELSE st

SweepCleanupObject(st, key, now) ==
    IF Len(key) < 3 THEN st
    ELSE LET obj_date        == ParseDate(key[3])
             three_weeks_ago == now - Weeks(3)
             six_weeks_ago   == now - Weeks(6)
         IN  IF obj_date # << >> /\ obj_date[1] <= six_weeks_ago
             THEN CleanupCounts(DeleteObject(st.bucket, key),
                                st.soft_tagged, st.hard_deleted + 1)
             ELSE IF obj_date = << >> \/ obj_date[1] <= three_weeks_ago
             THEN IF key \in DOMAIN st.bucket
                  THEN CleanupCounts(PutObjectTagging(st.bucket, key),
                                     st.soft_tagged + 1, st.hard_deleted)
                  ELSE st
             ELSE st

RECURSIVE SweepCleanupLoop(_, _, _)
SweepCleanupLoop(st, keys, now) ==
    IF keys = << >> THEN st
    ELSE SweepCleanupLoop(SweepCleanupObject(st, Head(keys), now), Tail(keys), now)

SweepCleanup(b, symbol, now) ==
    IF BUCKET_NAME = "" THEN CleanupCounts(b, 0, 0)
    ELSE SweepCleanupLoop(CleanupCounts(b, 0, 0), ListObjects(b, symbol), now)

-----------------------------------------------------------------------------
(* Soft Delete Lambda handler (src/lambda/soft_delete/main.py)             *)

SoftDeleteProgress(t, b, updated, soft, hard) ==
    [table |-> t, bucket |-> b, updated |-> updated,
     soft_tagged |-> soft, hard_deleted |-> hard]

\* update_item "SET is_deleted = :true, updated_at = :u, deleted_news_count =
\* if_not_exists(deleted_news_count, :zero) + :inc"
\* A soft delete that also clears the score.
MarkDeletedClearingScore(item, affected) ==
    SetAttr(SetAttr(AddToAttr(item, "deleted_news_count", affected), "is_deleted", TRUE),
            "current_level_score", 0)

MarkDeleted(item, affected) ==
    SetAttr(AddToAttr(item, "deleted_news_count", affected), "is_deleted", TRUE)

RECURSIVE SoftDeleteLoop(_, _, _)
SoftDeleteLoop(st, records, now) ==
    IF records = << >> THEN st
    ELSE LET msg == Head(records)
         IN  IF Get(msg, "type", "") \notin {"MARK_STOCK_DELETED", "CLEANUP_STOCK"}
             THEN SoftDeleteLoop(st, Tail(records), now)
             ELSE LET symbol   == msg.symbol
                      counts   == SoftDeleteCleanup(st.bucket, symbol, now)
                      affected == counts.soft_tagged + counts.hard_deleted
                  IN  SoftDeleteLoop(
                        SoftDeleteProgress(
                          [st.table EXCEPT !.stocks[symbol] = MarkDeleted(@, affected)],
                          counts.bucket,
                          st.updated + 1,
                          st.soft_tagged + counts.soft_tagged,
                          st.hard_deleted + counts.hard_deleted),
                        Tail(records), now)

soft_delete_handler(t, b, records, now) ==
    LET final == SoftDeleteLoop(SoftDeleteProgress(t, b, 0, 0, 0), records, now)
    IN  [ table  |-> final.table,
          bucket |-> final.bucket,
          resp   |-> Response(200, [items_marked_deleted     |-> final.updated,
                                    news_soft_tagged_deleted |-> final.soft_tagged,
                                    news_hard_deleted        |-> final.hard_deleted]) ]

-----------------------------------------------------------------------------
(* News Retention Cleaner Lambda handler                                   *)
(* (src/lambda/news_retention_cleaner/main.py)                             *)

\* scan with FilterExpression "begins_with(SK, 'STOCK#') AND is_deleted = true"
DeletedSymbols(t) ==
    SelectSeq(SymbolsInKeyOrder,
              LAMBDA s : Has(t.stocks[s], "is_deleted") /\ t.stocks[s].is_deleted = TRUE)

RECURSIVE SweepLoop(_, _, _)
SweepLoop(st, symbols, now) ==
    IF symbols = << >> THEN st
    ELSE LET counts == SweepCleanup(st.bucket, Head(symbols), now)
         IN  SweepLoop(CleanupCounts(counts.bucket,
                                     st.soft_tagged + counts.soft_tagged,
                                     st.hard_deleted + counts.hard_deleted),
                       Tail(symbols), now)

retention_cleaner_handler(t, b, now) ==
    LET final == SweepLoop(CleanupCounts(b, 0, 0), DeletedSymbols(t), now)
    IN  [ bucket |-> final.bucket,
          resp   |-> Response(200, [soft_tagged  |-> final.soft_tagged,
                                    hard_deleted |-> final.hard_deleted]) ]

-----------------------------------------------------------------------------
(* Local trade worker (src/local_app/local_trade_worker.py)                *)

\* _get_last_fetched_price: << >> for None, <<p>> for the price p
_get_last_fetched_price(t, symbol) ==
    IF Has(t.stocks[symbol], "last_fetched_price")
    THEN << t.stocks[symbol].last_fetched_price >>
    ELSE << >>

_get_managed_cash(t) == Get(t.summary, "current_cash_managed", 0)

\* A cash write that does not reach the table.
_update_managed_cashSkipped(t, new_cash) == t

_update_managed_cash(t, new_cash) ==
    [t EXCEPT !.summary = SetAttr(@, "current_cash_managed", new_cash)]

RECURSIVE PositionsValue(_, _)
PositionsValue(t, symbols) ==
    IF symbols = << >> THEN 0
    ELSE LET item == t.stocks[Head(symbols)]
         IN  (IF item = EmptyItem THEN 0
              ELSE Get(item, "shares_managed", 0) * Get(item, "last_fetched_price", 0))
             + PositionsValue(t, Tail(symbols))

_recompute_positions_and_net_worth(t) ==
    LET positions_value == PositionsValue(t, SymbolsInKeyOrder)
        net_worth       == Get(t.summary, "current_cash_managed", 0) + positions_value
    IN  [t EXCEPT !.summary = SetAttr(SetAttr(@, "positions_value", positions_value),
                                      "current_net_worth", net_worth)]

\* The TRADE#<ts> item
TradeRecord(msg, status, quantity, last_price, cash_before, cash_after) ==
    [ symbol              |-> msg.symbol,
      side                |-> msg.action,
      reason              |-> Get(msg, "reason", "SCORE_THRESHOLD"),
      status              |-> status,
      score               |-> Get(msg, "score", << >>),
      threshold_abs       |-> Get(msg, "threshold_abs", << >>),
      quantity            |-> quantity,
      last_price          |-> last_price,
      managed_cash_before |-> cash_before,
      managed_cash_after  |-> cash_after ]

\* The attributes of the TRADE# item that hold Python float values:
\* _get_managed_cash returns float(value), _get_last_fetched_price returns
\* float(value) or None.
FloatFields(record) ==
    {"managed_cash_before", "managed_cash_after"}
      \cup (IF record.last_price # << >> THEN {"last_price"} ELSE {})

\* boto3's TypeSerializer, which table.put_item runs over the item, raises
\* TypeError("Float types are not supported. Use Decimal types instead.") on a
\* float.
TypeSerializable(record) == FloatFields(record) = {}

\* What the ledger looks like after the BUY / SELL branch, and the status
TradeProgress(t, status, cash_after) ==
    [table |-> t, status |-> status, cash_after |-> cash_after]

\* A trade that books a BUY or a SELL without looking at the cash or the
\* shares there are.
VirtualTradeUnchecked(t, msg, quantity, notional, cash_before) ==
    LET symbol == msg.symbol
    IN  IF notional = << >>
        THEN TradeProgress(t, "REJECTED_NO_PRICE", cash_before)
        ELSE IF Upper(msg.action) = "BUY"
        THEN TradeProgress(
               [_update_managed_cash(t, cash_before - notional[1])
                   EXCEPT !.stocks[symbol] = AddToAttr(@, "shares_managed", quantity)],
               "EXECUTED_VIRTUAL", cash_before - notional[1])
        ELSE IF Upper(msg.action) = "SELL"
        THEN LET current_shares == Get(t.stocks[symbol], "shares_managed", 0)
             IN  TradeProgress(
                   _update_managed_cash(
                     [t EXCEPT !.stocks[symbol] =
                         SetAttr(@, "shares_managed", current_shares - quantity)],
                     cash_before + notional[1]),
                   "EXECUTED_VIRTUAL", cash_before + notional[1])
        ELSE TradeProgress(t, "REJECTED_BAD_ACTION", cash_before)

VirtualTrade(t, msg, quantity, notional, cash_before) ==
    LET symbol == msg.symbol
    IN  IF notional = << >>
        THEN TradeProgress(t, "REJECTED_NO_PRICE", cash_before)
        ELSE IF Upper(msg.action) = "BUY"
        THEN IF cash_before < notional[1]
             THEN TradeProgress(t, "REJECTED_INSUFFICIENT_MANAGED_CASH", cash_before)
             ELSE TradeProgress(
                    [_update_managed_cash(t, cash_before - notional[1])
                        EXCEPT !.stocks[symbol] = AddToAttr(@, "shares_managed", quantity)],
                    "EXECUTED_VIRTUAL", cash_before - notional[1])
        ELSE IF Upper(msg.action) = "SELL"
        THEN LET current_shares == Get(t.stocks[symbol], "shares_managed", 0)
             IN  IF current_shares < quantity
                 THEN TradeProgress(t, "REJECTED_INSUFFICIENT_SHARES", cash_before)
                 ELSE TradeProgress(
                        _update_managed_cash(
                          [t EXCEPT !.stocks[symbol] =
                              SetAttr(@, "shares_managed", current_shares - quantity)],
                          cash_before + notional[1]),
                        "EXECUTED_VIRTUAL", cash_before + notional[1])
        ELSE TradeProgress(t, "REJECTED_BAD_ACTION", cash_before)

\* _handle_auto_trade_decision: the result is the table and how the call
\* ended (returned, or raised out of the worker's loop)
_handle_auto_trade_decision(t, msg) ==
    IF Get(msg, "type", "") # "AUTO_TRADE_DECISION"
    THEN [table |-> t, resp |-> [kind |-> "returned"]]
    ELSE LET quantity    == Get(msg, "shares", 1)
             last_price  == _get_last_fetched_price(t, msg.symbol)
             notional    == IF last_price # << >> /\ last_price[1] > 0
                            THEN << last_price[1] * quantity >> ELSE << >>
             cash_before == _get_managed_cash(t)
             traded      == VirtualTrade(t, msg, quantity, notional, cash_before)
             recomputed  == IF traded.status = "EXECUTED_VIRTUAL"
                            THEN _recompute_positions_and_net_worth(traded.table)
                            ELSE traded.table
             record      == TradeRecord(msg, traded.status, quantity, last_price,
                                        cash_before, traded.cash_after)
         IN  IF TypeSerializable(record)
             THEN [table |-> [recomputed EXCEPT !.trades = Append(@, record)],
                   resp  |-> [kind |-> "returned"]]
             ELSE [table |-> recomputed, resp |-> Raised("TypeError")]


-----------------------------------------------------------------------------
(* Invocations of the news writer, the soft-delete handler, the daily      *)
(* sweep and the trade worker                                              *)

\* The state after construction, on a given day
InitOn(day) ==
    /\ table = EmptyTable
    /\ req = NoRequest
    /\ resp = NoResponse
    /\ published = << >>
    /\ ops = 0
    /\ inflight = << >>
    /\ marks = << >>
    /\ bucket = NoObjects
    /\ today = day
    /\ clock = 0
    /\ queue = << >>

NewsWriterCall(records) ==
    LET out == news_writer_handler(bucket, records, today, ops)
    IN  /\ bucket' = out.bucket
        /\ req' = [source |-> "news_writer", records |-> records]
        /\ resp' = out.resp
        /\ published' = out.published
        /\ ops' = ops + 1
        /\ marks' = << >>
        /\ UNCHANGED <<table, inflight, today, clock, queue>>

SoftDeleteCall(records) ==
    LET out == soft_delete_handler(table, bucket, records, today)
    IN  /\ table' = out.table
        /\ bucket' = out.bucket
        /\ req' = [source |-> "soft_delete", records |-> records]
        /\ resp' = out.resp
        /\ published' = << >>
        /\ ops' = ops + 1
        /\ marks' = << >>
        /\ UNCHANGED <<inflight, today, clock, queue>>

TradeWorkerCall(msg) ==
    LET out == _handle_auto_trade_decision(table, msg)
    IN  /\ table' = out.table
        /\ req' = [source |-> "trade_worker", msg |-> msg]
        /\ resp' = out.resp
        /\ published' = << >>
        /\ ops' = ops + 1
        /\ marks' = << >>
        /\ UNCHANGED <<inflight, bucket, today, clock, queue>>

\* main(): the handler raised, `handled` is still False and the message is
\* not deleted, so the queue delivers the same message again.
TradeWorkerRedelivery ==
    /\ req.source = "trade_worker"
    /\ resp.kind = "exception"
    /\ LET out == _handle_auto_trade_decision(table, req.msg)
       IN  /\ table' = out.table
           /\ req' = [source |-> "trade_worker", msg |-> req.msg, receive_count |-> 2]
           /\ resp' = out.resp
           /\ published' = << >>
           /\ ops' = ops + 1
           /\ marks' = << >>
           /\ UNCHANGED <<inflight, bucket, today, clock, queue>>

FetcherCall(feed) ==
    LET out == news_fetcher_handler(table, feed)
    IN  /\ table' = out.table
        /\ req' = [source |-> "news_fetcher", feed |-> feed]
        /\ resp' = out.resp
        /\ published' = out.published
        /\ marks' = out.marks
        /\ ops' = ops + 1
        /\ UNCHANGED <<inflight, bucket, today, clock, queue>>

ExternalOpsCall(records) ==
    LET out == external_ops_handler(table, records)
    IN  /\ table' = out.table
        /\ req' = [source |-> "external_ops", records |-> records]
        /\ resp' = out.resp
        /\ published' = out.published
        /\ ops' = ops + 1
        /\ marks' = << >>
        /\ UNCHANGED <<inflight, bucket, today, clock, queue>>

-----------------------------------------------------------------------------
(* Lifecycle specification: a symbol is added, updated, priced, traded and *)
(* soft-deleted, one invocation after another, on one day                  *)

MaxLifecycleOps == 3

\* The publication days of the news that reaches the writer
NewsDays == {0, 25}

\* NEW_NEWS as the fetcher publishes it
NewNewsMessages ==
    {[type |-> "NEW_NEWS", symbol |-> "AAPL", headline |-> "Up", body |-> "s",
      published_at |-> IsoTimestamp(d)] : d \in NewsDays}

WriterBatches ==
    {<<n>> : n \in NewNewsMessages}
    \cup {<<n1, n2>> : n1 \in NewNewsMessages, n2 \in NewNewsMessages}
    \cup {<< [type |-> "STOCK_ADDED", symbol |-> "AAPL"] >>}

\* MARK_STOCK_DELETED as _handle_delete_watchlist publishes it
SoftDeleteBatches ==
    { << [type |-> "MARK_STOCK_DELETED", symbol |-> "AAPL"] >>,
      << [type |-> "NEW_NEWS", symbol |-> "AAPL"] >> }

\* AUTO_TRADE_DECISION as _handle_apply_sentiment and the scorer publish it
TradeDecisions ==
    {[type |-> "AUTO_TRADE_DECISION", symbol |-> "AAPL", action |-> a,
      score |-> 3, threshold_abs |-> 3, reason |-> "FINBERT"] : a \in {"BUY", "SELL"}}

LifecycleFeeds ==
    { [s \in Symbols |-> IF s = "AAPL" THEN [last_price |-> p, news |-> l]
                         ELSE [last_price |-> << >>, news |-> << >>]] :
        p \in LastPrices,
        l \in {<< >>, << [title |-> "Up", summary |-> "s", providerPublishTime |-> 1] >>} }

LifecycleAdd ==
    /\ ops < MaxLifecycleOps
    /\ \E n \in InitialShareValues :
          ControlPlaneCall(Post(<<"watchlist">>, [symbol |-> "aapl", shares_managed |-> n]))

LifecycleExternalAdd ==
    /\ ops < MaxLifecycleOps
    /\ ExternalOpsCall(<< [type |-> "ADD_STOCK", symbol |-> "AAPL",
                           initial_shares_managed |-> 2] >>)

LifecycleAdjustCash ==
    /\ ops < MaxLifecycleOps
    /\ ControlPlaneCall(Post(<<"account", "cash", "adjust">>,
                             [delta_cash |-> 5, max_allowed_cash |-> 10]))

LifecycleAdjustShares ==
    /\ ops < MaxLifecycleOps
    /\ ControlPlaneCall(Post(<<"account", "shares", "adjust">>,
                             [symbol |-> "aapl", delta_shares |-> 1,
                              max_shares_allowed |-> 3]))

LifecycleSetThreshold ==
    /\ ops < MaxLifecycleOps
    /\ ControlPlaneCall(Post(<<"watchlist", "aapl", "threshold">>, [threshold_abs |-> 1]))

LifecycleApplySentiment ==
    /\ ops < MaxLifecycleOps
    /\ \E d \in {-1, 1} :
          ControlPlaneCall(Post(<<"sentiment">>, [symbol |-> "aapl", delta_score |-> d]))

LifecycleFetcherRun ==
    /\ ops < MaxLifecycleOps
    /\ \E feed \in LifecycleFeeds : FetcherCall(feed)

LifecycleNewsWriter ==
    /\ ops < MaxLifecycleOps
    /\ \E records \in WriterBatches : NewsWriterCall(records)

LifecycleSoftDelete ==
    /\ ops < MaxLifecycleOps
    /\ \E records \in SoftDeleteBatches : SoftDeleteCall(records)

LifecycleTrade ==
    /\ ops < MaxLifecycleOps
    /\ \E msg \in TradeDecisions : TradeWorkerCall(msg)

LifecycleNext ==
    \/ LifecycleAdd \/ LifecycleExternalAdd \/ LifecycleAdjustCash
    \/ LifecycleAdjustShares \/ LifecycleSetThreshold \/ LifecycleApplySentiment
    \/ LifecycleFetcherRun \/ LifecycleNewsWriter \/ LifecycleSoftDelete
    \/ LifecycleTrade

LifecycleSpec == InitOn(LastDay) /\ [][LifecycleNext]_vars


-----------------------------------------------------------------------------
(* Claims about the life of a watchlist entry                              *)

IsDeleted(item) == Has(item, "is_deleted") /\ item.is_deleted = TRUE

\* C13, as claimed: once a symbol's entry has is_deleted = true, no operation
\* (add, adjust-shares, setThreshold, applySentiment, price refresh,
\* softDelete, trade execution) makes it false or missing again.
C13_IsDeletedMonotonic ==
    [][ \A s \in Symbols : IsDeleted(table.stocks[s]) => IsDeleted(table'.stocks[s]) ]_vars


\* A committed control-plane add
IsAddCall(r, rsp) ==
    /\ r.source = "control_plane"
    /\ r.event.httpMethod = "POST"
    /\ r.event.path = <<"watchlist">>
    /\ Committed(rsp)

\* The records of an external-ops batch that are an ADD_STOCK carried out
AddStockRecords(r) ==
    IF r.source # "external_ops" THEN {}
    ELSE {i \in DOMAIN r.records :
            /\ Get(r.records[i], "type", "") = "ADD_STOCK"
            /\ Has(r.records[i], "symbol")}

\* The score and threshold of an entry, as a pair
ScoreAndThreshold(item) == << item.current_level_score, item.threshold_abs >>

\* C14: an add for a symbol that already has an entry overwrites its score
\* and threshold with the defaults 0 and 3 whatever they were, from the
\* control plane and from the external-ops handler alike; so when the entry
\* had been updated to another score or threshold since its first add, the
\* replayed add changes the state and does not leave what the first add and
\* the updates had left.
C14_AddOverwritesWithDefaults ==
    [][ /\ IsAddCall(req', resp') =>
             LET symbol == Upper(req'.event.body.symbol)
                 old    == table.stocks[symbol]
                 new    == table'.stocks[symbol]
             IN  /\ ScoreAndThreshold(new) = <<0, 3>>
                 /\ new = NewWatchlistItem(symbol, Get(req'.event.body, "shares_managed", 0))
                 /\ ( /\ Has(old, "current_level_score") /\ Has(old, "threshold_abs")
                      /\ ScoreAndThreshold(old) # <<0, 3>> ) => table' # table
        /\ \A i \in AddStockRecords(req') :
             (i = Len(req'.records)) =>
                ScoreAndThreshold(table'.stocks[req'.records[i].symbol]) = <<0, 3>>
      ]_vars

\* C14 witness: AAPL was added, its score and threshold were changed by a
\* sentiment application (recorded in the score history), and an add has
\* just been replayed.
C14_Witness ==
    /\ IsAddCall(req, resp)
    /\ Len(table.scores) >= 1
    /\ table.scores[1].symbol = "AAPL"
    /\ table.scores[1].new_score # 0
    /\ ScoreAndThreshold(table.stocks["AAPL"]) = <<0, 3>>


\* The soft-delete invocation `r` handled exactly one message, a
\* MARK_STOCK_DELETED or CLEANUP_STOCK
IsSoftDelete(r) ==
    /\ r.source = "soft_delete"
    /\ Len(r.records) = 1
    /\ Get(r.records[1], "type", "") \in {"MARK_STOCK_DELETED", "CLEANUP_STOCK"}

\* The artifacts of a symbol that a cleanup between the buckets b and bNew
\* removed, or tagged (whether or not they carried the tag before)
AffectedArtifacts(b, bNew, symbol) ==
    {k \in KeysWithPrefix(b, symbol) : k \notin DOMAIN bNew \/ bNew[k].deleted}

\* What softDelete writes
SoftDeleteWrites == {"is_deleted", "deleted_news_count"}

\* C15: softDelete(account, symbol) sets is_deleted = true, adds to
\* deleted_news_count (a missing counter counting as 0) the number of
\* artifacts that this run's cleanup tagged or removed, and leaves every other
\* attribute of the entry (score, threshold, shares_managed, last price), the
\* account's cash and the rest of the table unchanged.  An artifact that
\* carried the tag already and is tagged again by this run is counted.
C15_SoftDeleteFrame ==
    [][ IsSoftDelete(req') =>
          LET symbol == req'.records[1].symbol
              old    == table.stocks[symbol]
              new    == table'.stocks[symbol]
          IN  /\ IsDeleted(new)
              /\ new.deleted_news_count
                   = Get(old, "deleted_news_count", 0)
                       + Cardinality(AffectedArtifacts(bucket, bucket', symbol))
              /\ DOMAIN new = DOMAIN old \cup SoftDeleteWrites
              /\ \A a \in DOMAIN old \ SoftDeleteWrites : new[a] = old[a]
              /\ \A s \in Symbols \ {symbol} : table'.stocks[s] = table.stocks[s]
              /\ table'.summary = table.summary
              /\ table'.scores = table.scores
              /\ table'.newshash = table.newshash
              /\ table'.trades = table.trades
      ]_vars

\* C15 witness: AAPL had been added, two artifacts were stored for it, and a
\* softDelete has removed one and tagged the other, counting 2.
C15_Witness ==
    /\ IsSoftDelete(req)
    /\ IsDeleted(table.stocks["AAPL"])
    /\ table.stocks["AAPL"].deleted_news_count = 2
    /\ Has(table.stocks["AAPL"], "threshold_abs")
    /\ Cardinality(DOMAIN bucket) = 1
    /\ \A k \in DOMAIN bucket : bucket[k].deleted


\* The symbols of a sequence
SymbolsOf(seq) == {seq[i] : i \in DOMAIN seq}

\* The STOCK# entries whose is_deleted is false or missing
ActiveEntries(t) ==
    {s \in Symbols : t.stocks[s] # EmptyItem /\ ~IsDeleted(t.stocks[s])}

\* The last invocation was a fetch run that refreshed the price of `symbol`
\* or published NEW_NEWS for it
FetcherActedOn(symbol) ==
    /\ req.source = "news_fetcher"
    /\ \/ /\ symbol \in SymbolsOf(resp.body.symbols)
          /\ req.feed[symbol].last_price # << >>
       \/ \E i \in DOMAIN published :
             /\ published[i].msg.type = "NEW_NEWS"
             /\ published[i].msg.symbol = symbol

\* Once softDelete has been applied to a symbol (its entry has is_deleted =
\* true), no later fetch run refreshes its price or publishes NEW_NEWS for it.
NoFetchAfterSoftDelete ==
    \A s \in Symbols : [](IsDeleted(table.stocks[s]) => [](~FetcherActedOn(s)))

\* C16, as claimed: the active watchlist the fetcher uses is exactly the set
\* of STOCK# entries whose is_deleted is false or missing, and once softDelete
\* has been applied to a symbol no later fetch run refreshes its price or
\* publishes NEW_NEWS for it.
C16_NoFetchAfterSoftDelete ==
    /\ [](SymbolsOf(_get_watchlist_symbols(table)) = ActiveEntries(table))
    /\ NoFetchAfterSoftDelete



-----------------------------------------------------------------------------
(* Claims about trade execution                                            *)

\* C20, as claimed: executing a BUY or SELL decision for a symbol with no
\* known last price changes neither cash_managed nor any shares_managed nor
\* the summary's net worth, and writes one TradeRecord whose status is
\* REJECTED_NO_PRICE.
C20_NoPriceRejectionRecorded ==
    [][ ( /\ req'.source = "trade_worker"
          /\ req'.msg.type = "AUTO_TRADE_DECISION"
          /\ req'.msg.action \in {"BUY", "SELL"}
          /\ _get_last_fetched_price(table, req'.msg.symbol) = << >> ) =>
            /\ table'.summary = table.summary
            /\ table'.stocks = table.stocks
            /\ Len(table'.trades) = Len(table.trades) + 1
            /\ table'.trades[Len(table'.trades)].status = "REJECTED_NO_PRICE"
            /\ table'.trades[Len(table'.trades)].symbol = req'.msg.symbol
      ]_vars


-----------------------------------------------------------------------------
(* Retention specification: artifacts are stored, a symbol is soft-deleted *)
(* (and may be added again), the sweep runs every day and the days pass    *)

MaxRetentionOps == 2

\* NEW_NEWS for news published on day 0, and NEW_NEWS without published_at
RetentionWriterBatches ==
    { << [type |-> "NEW_NEWS", symbol |-> "AAPL", headline |-> "Up", body |-> "s",
          published_at |-> IsoTimestamp(0)] >>,
      << [type |-> "NEW_NEWS", symbol |-> "AAPL", headline |-> "Up", body |-> "s"] >> }

RetentionNewsWriter ==
    /\ ops < MaxRetentionOps
    /\ \E records \in RetentionWriterBatches : NewsWriterCall(records)

RetentionSoftDelete ==
    /\ ops < MaxRetentionOps
    /\ SoftDeleteCall(<< [type |-> "MARK_STOCK_DELETED", symbol |-> "AAPL"] >>)

RetentionAdd ==
    /\ ops < MaxRetentionOps
    /\ ControlPlaneCall(Post(<<"watchlist">>, [symbol |-> "aapl", shares_managed |-> 0]))

\* The sweep of day `day` was the last invocation
SweptOn(day) == req.source = "retention_cleaner" /\ req.day = day

\* EventBridge rule rate(1 day): the sweep runs once every day
DailySweep ==
    /\ ~SweptOn(today)
    /\ LET out == retention_cleaner_handler(table, bucket, today)
       IN  /\ bucket' = out.bucket
           /\ req' = [source |-> "retention_cleaner", day |-> today]
           /\ resp' = out.resp
           /\ published' = << >>
           /\ marks' = << >>
           /\ UNCHANGED <<table, ops, inflight, today, clock, queue>>

\* Midnight UTC
NextDay ==
    /\ SweptOn(today)
    /\ today < LastDay
    /\ today' = today + 1
    /\ UNCHANGED <<table, req, resp, published, ops, inflight, marks, bucket, clock, queue>>

RetentionNext ==
    RetentionNewsWriter \/ RetentionSoftDelete \/ RetentionAdd \/ DailySweep \/ NextDay

RetentionSpec == InitOn(FirstDay) /\ [][RetentionNext]_vars


-----------------------------------------------------------------------------
(* Claims about retention                                                  *)

\* The age of an artifact in whole days on day `now`, by the date in its key
AgeInDays(key, now) == now - ParseDate(key[3])[1]

\* The state a cleanup pass on day `now` leaves an artifact in, by its age
\* ("absent", or the artifact with its tag)
StateAfterCleanup(before, key, now) ==
    IF AgeInDays(key, now) >= 42 THEN "absent"
    ELSE IF AgeInDays(key, now) >= 21 THEN "tagged"
    ELSE IF before.deleted THEN "tagged" ELSE "untagged"

ArtifactState(b, key) ==
    IF key \notin DOMAIN b THEN "absent"
    ELSE IF b[key].deleted THEN "tagged" ELSE "untagged"

\* The symbols whose artifacts the step to req' cleaned
CleanedSymbols(r, t) ==
    IF r.source = "retention_cleaner" THEN SymbolsOf(DeletedSymbols(t))
    ELSE IF IsSoftDelete(r) THEN {r.records[1].symbol}
    ELSE {}

IsCleanupStep(r) == r.source = "retention_cleaner" \/ r.source = "soft_delete"

SweptArtifactsInOrder ==
    SweptOn(today) =>
       \A s \in Symbols :
          IsDeleted(table.stocks[s]) =>
             \A k \in KeysWithPrefix(bucket, s) :
                /\ AgeInDays(k, today) < Weeks(6)
                /\ AgeInDays(k, today) >= Weeks(3) => bucket[k].deleted

\* C19: for a soft-deleted symbol swept daily, an artifact's state only moves
\* active -> soft-tagged -> hard-deleted: no step removes a tag, no step
\* removes an artifact younger than 6 weeks, a sweep or soft-delete creates
\* no artifact, and a stored artifact never takes the key of an earlier one;
\* after each day's sweep every artifact of a soft-deleted symbol that is 3
\* weeks old or more is tagged and none is 6 weeks old or more, so an
\* artifact tagged at week 4 is still there and tagged at week 5 and is gone
\* by week 7.
C19_RetentionMonotonic ==
    /\ [](SweptArtifactsInOrder)
    /\ [][ /\ \A k \in DOMAIN bucket :
                /\ (k \in DOMAIN bucket' /\ bucket[k].deleted) => bucket'[k].deleted
                /\ k \notin DOMAIN bucket' => AgeInDays(k, today) >= Weeks(6)
           /\ IsCleanupStep(req') => DOMAIN bucket' \subseteq DOMAIN bucket
           /\ \A k \in DOMAIN bucket' \ DOMAIN bucket :
                /\ req'.source = "news_writer"
                /\ k[4] >= Uuid4(ops, 0)
         ]_vars

\* C19 witness: at week 5 the artifact dated day 0 of the soft-deleted symbol
\* is in the bucket, tagged, after that day's sweep.
C19_Witness ==
    /\ SweptOn(today)
    /\ today = Weeks(5)
    /\ IsDeleted(table.stocks["AAPL"])
    /\ \E k \in DOMAIN bucket : AgeInDays(k, today) = Weeks(5) /\ bucket[k].deleted


-----------------------------------------------------------------------------
(* Concurrent cleanup specification: cleanup runs of the soft-delete       *)
(* handler and of the daily sweep, one S3 call at a time, on one day       *)

MaxCleanupOps == 4

\* A cleanup run in progress: the symbols still to clean, the listed keys
\* still to visit, and what it has counted
CleanupRun(source, symbols) ==
    [ source       |-> source,
      pc           |-> IF symbols = << >> THEN "finish" ELSE "list",
      symbols      |-> symbols,
      keys         |-> << >>,
      listed       |-> NoObjects,
      soft_tagged  |-> 0,
      hard_deleted |-> 0 ]

\* One batch with news of day 0 and of day 25, one with news of today
CleanupWriterBatches ==
    { << [type |-> "NEW_NEWS", symbol |-> "AAPL", headline |-> "Up", body |-> "s",
          published_at |-> IsoTimestamp(0)],
         [type |-> "NEW_NEWS", symbol |-> "AAPL", headline |-> "Up", body |-> "s",
          published_at |-> IsoTimestamp(25)] >>,
      << [type |-> "NEW_NEWS", symbol |-> "AAPL", headline |-> "Up", body |-> "s"] >> }

\* The artifacts are stored before the runs start
ConcurrentCleanupWriter ==
    /\ ops < MaxCleanupOps
    /\ inflight = << >>
    /\ \E records \in CleanupWriterBatches : NewsWriterCall(records)

\* A soft-delete invocation that runs alone
CleanupSoftDelete ==
    /\ ops < MaxCleanupOps
    /\ inflight = << >>
    /\ SoftDeleteCall(<< [type |-> "MARK_STOCK_DELETED", symbol |-> "AAPL"] >>)

\* The soft-delete handler starts on a MARK_STOCK_DELETED message
SoftDeleteInvoke ==
    /\ ops < MaxCleanupOps
    /\ inflight' = Append(inflight, CleanupRun("soft_delete", <<"AAPL">>))
    /\ ops' = ops + 1
    /\ UNCHANGED <<table, req, resp, published, marks, bucket, today, clock, queue>>

\* The daily sweep starts: it scans for the soft-deleted symbols
SweepInvoke ==
    /\ ops < MaxCleanupOps
    /\ inflight' = Append(inflight, CleanupRun("retention_cleaner", DeletedSymbols(table)))
    /\ ops' = ops + 1
    /\ UNCHANGED <<table, req, resp, published, marks, bucket, today, clock, queue>>

\* paginator.paginate for the next symbol
CleanupList ==
    \E i \in DOMAIN inflight :
       /\ inflight[i].pc = "list"
       /\ LET run  == inflight[i]
              keys == ListObjects(bucket, Head(run.symbols))
          IN  inflight' = [inflight EXCEPT ![i] =
                 [run EXCEPT !.keys   = keys,
                             !.listed = [k \in DOMAIN run.listed \cup KeysWithPrefix(bucket, Head(run.symbols)) |->
                                           IF k \in DOMAIN run.listed THEN run.listed[k]
                                           ELSE bucket[k]],
                             !.pc     = "object"]]
       /\ UNCHANGED <<table, req, resp, published, ops, marks, bucket, today, clock, queue>>

\* The loop body for the next listed key, or the end of the symbol's loop
CleanupObject ==
    \E i \in DOMAIN inflight :
       /\ inflight[i].pc = "object"
       /\ LET run == inflight[i]
          IN  IF run.keys = << >>
              THEN /\ inflight' = [inflight EXCEPT ![i] =
                        [run EXCEPT !.symbols = Tail(@),
                                    !.pc = IF Len(run.symbols) = 1 THEN "finish"
                                           ELSE "list"]]
                   /\ UNCHANGED bucket
              ELSE LET st  == CleanupCounts(bucket, run.soft_tagged, run.hard_deleted)
                       out == IF run.source = "soft_delete"
                              THEN SoftDeleteCleanupObject(st, Head(run.keys), today)
                              ELSE SweepCleanupObject(st, Head(run.keys), today)
                   IN  /\ bucket' = out.bucket
                       /\ inflight' = [inflight EXCEPT ![i] =
                            [run EXCEPT !.keys         = Tail(@),
                                        !.soft_tagged  = out.soft_tagged,
                                        !.hard_deleted = out.hard_deleted]]
       /\ UNCHANGED <<table, req, resp, published, ops, marks, today, clock, queue>>

\* The soft-delete handler's update_item, and the return of either handler
CleanupFinish ==
    \E i \in DOMAIN inflight :
       /\ inflight[i].pc = "finish"
       /\ LET run == inflight[i]
          IN  /\ table' = IF run.source = "soft_delete"
                          THEN [table EXCEPT !.stocks["AAPL"] =
                                  MarkDeleted(@, run.soft_tagged + run.hard_deleted)]
                          ELSE table
              /\ inflight' = [inflight EXCEPT ![i] = [run EXCEPT !.pc = "done"]]
       /\ UNCHANGED <<req, resp, published, ops, marks, bucket, today, clock, queue>>

ConcurrentCleanupNext ==
    \/ ConcurrentCleanupWriter \/ CleanupSoftDelete \/ SoftDeleteInvoke \/ SweepInvoke
    \/ CleanupList \/ CleanupObject \/ CleanupFinish

ConcurrentCleanupSpec == InitOn(LastDay) /\ [][ConcurrentCleanupNext]_vars


\* The cleanup runs that have returned
FinishedRuns == {i \in DOMAIN inflight : inflight[i].pc = "done"}

\* C18: the retention transition is idempotent.  On every bucket and for
\* every symbol, a second cleanup at the same date, by either handler, leaves
\* the bucket as the first cleanup left it; and when runs of the soft-delete
\* handler and of the daily sweep interleave call by call, every artifact a
\* finished run had listed is in the state a single cleanup leaves it in
\* (absent, tagged, or untagged as it was), whatever the other runs did.
C18_CleanupIdempotent ==
    /\ \A s \in Symbols :
          LET bySoftDelete == SoftDeleteCleanup(bucket, s, today).bucket
              bySweep      == SweepCleanup(bucket, s, today).bucket
          IN  /\ SoftDeleteCleanup(bySoftDelete, s, today).bucket = bySoftDelete
              /\ SweepCleanup(bySoftDelete, s, today).bucket = bySoftDelete
              /\ SoftDeleteCleanup(bySweep, s, today).bucket = bySweep
              /\ SweepCleanup(bySweep, s, today).bucket = bySweep
    /\ \A i \in FinishedRuns :
          \A k \in DOMAIN inflight[i].listed :
             ArtifactState(bucket, k) = StateAfterCleanup(inflight[i].listed[k], k, today)

\* The artifacts of 6 weeks or more that a run listed
ListedOld(run) == {k \in DOMAIN run.listed : AgeInDays(k, today) >= Weeks(6)}

\* C18 witness: a run of the soft-delete handler and a run of the sweep have
\* both returned, each had listed the same single artifact of 6 weeks or more
\* and the same younger one before the other removed or tagged it, each
\* issued the delete and the tagging call, and the artifacts are in the state
\* one run leaves.
C18_Witness ==
    /\ Len(inflight) = 2
    /\ FinishedRuns = {1, 2}
    /\ inflight[1].source # inflight[2].source
    /\ Cardinality(ListedOld(inflight[1])) = 1
    /\ ListedOld(inflight[1]) = ListedOld(inflight[2])
    /\ inflight[1].hard_deleted = 1 /\ inflight[2].hard_deleted = 1
    /\ inflight[1].soft_tagged = 1 /\ inflight[2].soft_tagged = 1
    /\ \E k \in DOMAIN bucket : bucket[k].deleted

-----------------------------------------------------------------------------
(* Trade specification: the worker handles AUTO_TRADE_DECISION messages    *)
(* one after another, between adds, cash adjusts, fetcher runs and         *)
(* soft deletes                                                            *)
MaxTradeOps == 4

TradeInitialShares == {0, 12}

TradeCashDeltas == {400, 600}

\* The fetcher's feed: a price for AAPL and no news
TradeFeeds ==
    { [s \in Symbols |-> IF s = "AAPL" THEN [last_price |-> << 50 >>, news |-> << >>]
                         ELSE [last_price |-> << >>, news |-> << >>]] }

\* AUTO_TRADE_DECISION with and without the optional "shares" field
TradeOrders ==
    LET base(a) == [type |-> "AUTO_TRADE_DECISION", symbol |-> "AAPL", action |-> a,
                    score |-> 3, threshold_abs |-> 3, reason |-> "FINBERT"]
    IN  {base(a) : a \in {"BUY", "SELL", "HOLD"}}
        \cup {[f \in DOMAIN base(a) \cup {"shares"} |->
                 IF f = "shares" THEN 10 ELSE base(a)[f]] : a \in {"BUY", "SELL"}}

TradeAdd ==
    /\ ops < MaxTradeOps
    /\ \E n \in TradeInitialShares :
          ControlPlaneCall(Post(<<"watchlist">>, [symbol |-> "aapl", shares_managed |-> n]))

TradeAdjustCash ==
    /\ ops < MaxTradeOps
    /\ \E d \in TradeCashDeltas :
          ControlPlaneCall(Post(<<"account", "cash", "adjust">>,
                                [delta_cash |-> d, max_allowed_cash |-> 1000]))

TradeFetcherRun ==
    /\ ops < MaxTradeOps
    /\ \E feed \in TradeFeeds : FetcherCall(feed)

TradeSoftDelete ==
    /\ ops < MaxTradeOps
    /\ SoftDeleteCall(<< [type |-> "MARK_STOCK_DELETED", symbol |-> "AAPL"] >>)

TradeExecute ==
    /\ ops < MaxTradeOps
    /\ \E msg \in TradeOrders : TradeWorkerCall(msg)

TradeRedeliver ==
    /\ ops < MaxTradeOps
    /\ TradeWorkerRedelivery

TradeNext ==
    \/ TradeAdd \/ TradeAdjustCash \/ TradeFetcherRun \/ TradeSoftDelete
    \/ TradeExecute \/ TradeRedeliver

TradeSpec == InitOn(LastDay) /\ [][TradeNext]_vars

-----------------------------------------------------------------------------
(* Claims about the virtual trades                                         *)

CashManaged(t) == Get(t.summary, "current_cash_managed", 0)

SharesManaged(t, symbol) == Get(t.stocks[symbol], "shares_managed", 0)

IsTrade(r, action) == r.source = "trade_worker" /\ Upper(r.msg.action) = action

OrderQuantity(msg) == Get(msg, "shares", 1)

\* The price the order trades at: the symbol has one, and it is positive
HasPrice(t, symbol) ==
    /\ Has(t.stocks[symbol], "last_fetched_price")
    /\ t.stocks[symbol].last_fetched_price > 0

PriceOf(t, symbol) == t.stocks[symbol].last_fetched_price

\* The trade_status the handler computes for the order on the ledger t
StatusOf(t, msg) ==
    VirtualTrade(t, msg, OrderQuantity(msg),
                 IF HasPrice(t, msg.symbol)
                 THEN << PriceOf(t, msg.symbol) * OrderQuantity(msg) >> ELSE << >>,
                 CashManaged(t)).status

\* C21: a BUY of q at price p with cash_managed < p*q is rejected for
\* insufficient managed cash and leaves cash and shares as they were;
\* otherwise it is executed, cash_managed goes down by exactly p*q and the
\* symbol's shares_managed goes up by exactly q.
C21_BuyAffordability ==
    [][ (IsTrade(req', "BUY") /\ HasPrice(table, req'.msg.symbol)) =>
          LET msg    == req'.msg
              symbol == msg.symbol
              q      == OrderQuantity(msg)
              p      == PriceOf(table, symbol)
          IN  IF CashManaged(table) < p * q
              THEN /\ StatusOf(table, msg) = "REJECTED_INSUFFICIENT_MANAGED_CASH"
                   /\ CashManaged(table') = CashManaged(table)
                   /\ SharesManaged(table', symbol) = SharesManaged(table, symbol)
              ELSE /\ StatusOf(table, msg) = "EXECUTED_VIRTUAL"
                   /\ CashManaged(table') = CashManaged(table) - p * q
                   /\ SharesManaged(table', symbol) = SharesManaged(table, symbol) + q
      ]_vars

\* A BUY of 10 at 50 with cash 600 has left cash 100 and 10 shares
C21_Witness ==
    /\ IsTrade(req, "BUY")
    /\ OrderQuantity(req.msg) = 10
    /\ HasPrice(table, "AAPL") /\ PriceOf(table, "AAPL") = 50
    /\ CashManaged(table) = 100
    /\ SharesManaged(table, "AAPL") = 10

\* C22: a SELL of q at price p with shares_managed < q is rejected for
\* insufficient shares and leaves shares and cash as they were; otherwise it
\* is executed, shares_managed goes down by exactly q and cash_managed goes
\* up by exactly p*q.
C22_SellRule ==
    [][ (IsTrade(req', "SELL") /\ HasPrice(table, req'.msg.symbol)) =>
          LET msg    == req'.msg
              symbol == msg.symbol
              q      == OrderQuantity(msg)
              p      == PriceOf(table, symbol)
          IN  IF SharesManaged(table, symbol) < q
              THEN /\ StatusOf(table, msg) = "REJECTED_INSUFFICIENT_SHARES"
                   /\ SharesManaged(table', symbol) = SharesManaged(table, symbol)
                   /\ CashManaged(table') = CashManaged(table)
              ELSE /\ StatusOf(table, msg) = "EXECUTED_VIRTUAL"
                   /\ SharesManaged(table', symbol) = SharesManaged(table, symbol) - q
                   /\ CashManaged(table') = CashManaged(table) + p * q
      ]_vars

\* A SELL of 10 at 50 out of 12 shares has left 2 shares and cash 500
C22_Witness ==
    /\ IsTrade(req, "SELL")
    /\ OrderQuantity(req.msg) = 10
    /\ HasPrice(table, "AAPL") /\ PriceOf(table, "AAPL") = 50
    /\ SharesManaged(table, "AAPL") = 2
    /\ CashManaged(table) = 500


\* C23: every handled AUTO_TRADE_DECISION appends exactly one TradeRecord,
\* whatever the outcome, holding the cash before and after, the price and
\* the quantity, and leaves the records there were as they are.
C23_OneRecordPerDecision ==
    [][ req'.source = "trade_worker" =>
          /\ Len(table'.trades) = Len(table.trades) + 1
          /\ SubSeq(table'.trades, 1, Len(table.trades)) = table.trades
          /\ LET record == table'.trades[Len(table'.trades)]
                 msg    == req'.msg
             IN  /\ record.status = StatusOf(table, msg)
                 /\ record.quantity = OrderQuantity(msg)
                 /\ record.managed_cash_before = CashManaged(table)
                 /\ record.managed_cash_after = CashManaged(table')
                 /\ record.last_price = _get_last_fetched_price(table, msg.symbol)
      ]_vars

\* positions_value over the active symbols: shares_managed * last price of
\* every entry that is there and is not soft-deleted
RECURSIVE ActivePositionsValue(_, _)
ActivePositionsValue(t, symbols) ==
    IF symbols = << >> THEN 0
    ELSE LET item == t.stocks[Head(symbols)]
         IN  (IF item = EmptyItem \/ Get(item, "is_deleted", FALSE) THEN 0
              ELSE Get(item, "shares_managed", 0) * Get(item, "last_fetched_price", 0))
             + ActivePositionsValue(t, Tail(symbols))

Valuation(t) ==
    << Get(t.summary, "positions_value", << >>),
       Get(t.summary, "current_net_worth", << >>) >>

\* C24: after an executed trade the summary holds positions_value = the sum
\* of shares_managed * last_price over the active symbols only, and
\* net_worth = cash_managed + positions_value; a rejected trade changes
\* neither.
C24_ValuationOverActiveSymbols ==
    [][ req'.source = "trade_worker" =>
          IF StatusOf(table, req'.msg) = "EXECUTED_VIRTUAL"
          THEN Valuation(table') =
                 << ActivePositionsValue(table', SymbolsInKeyOrder),
                    CashManaged(table') + ActivePositionsValue(table', SymbolsInKeyOrder) >>
          ELSE Valuation(table') = Valuation(table)
      ]_vars

\* C26: a second delivery of an AUTO_TRADE_DECISION message leaves
\* cash_managed and shares_managed as the first delivery left them.
C26_RedeliveryIsSafe ==
    [][ (req'.source = "trade_worker" /\ Has(req', "receive_count")) =>
          /\ CashManaged(table') = CashManaged(table)
          /\ \A s \in Symbols : SharesManaged(table', s) = SharesManaged(table, s)
      ]_vars


-----------------------------------------------------------------------------
(* Concurrent trade specification: runs of _handle_auto_trade_decision, one *)
(* DynamoDB call per step, interleaved with each other and with adjust-cash *)
(* calls.  The symbol is added and priced before the first run starts.      *)
MaxTradeRuns == 2

\* shares_managed of the POST /watchlist that sets the symbol up
SetupShares == 2

ConcurrentOrders ==
    {[type |-> "AUTO_TRADE_DECISION", symbol |-> "AAPL", action |-> a,
      score |-> 3, threshold_abs |-> 3, reason |-> "FINBERT"] : a \in {"BUY", "SELL"}}

ConcurrentAdjustBody == [delta_cash |-> 60, max_allowed_cash |-> 1000]

\* A run of the handler that has parsed its message and is about to read the
\* price; the fields after pc are the handler's local variables.
StartedTrade(msg) ==
    [source |-> "trade_worker", msg |-> msg, pc |-> "get_price",
     quantity |-> Get(msg, "shares", 1), last_price |-> << >>, notional |-> << >>,
     managed_cash_before |-> 0, managed_cash_after |-> 0, current_shares |-> 0,
     trade_status |-> "NOOP", positions_value |-> 0, cash |-> 0]

TradeSetupAdd ==
    /\ inflight = << >>
    /\ table.stocks["AAPL"] = EmptyItem
    /\ ControlPlaneCall(Post(<<"watchlist">>,
                             [symbol |-> "aapl", shares_managed |-> SetupShares]))

TradeSetupFetch ==
    /\ inflight = << >>
    /\ table.stocks["AAPL"] # EmptyItem
    /\ ~Has(table.stocks["AAPL"], "last_fetched_price")
    /\ \E feed \in TradeFeeds : FetcherCall(feed)

\* POST /account/cash/adjust: its one update_item is the call's only access
\* to the ledger, so the call is one step.
AdjustCashInvoke ==
    /\ Len(inflight) < MaxTradeRuns
    /\ LET event == Post(<<"account", "cash", "adjust">>, ConcurrentAdjustBody)
           out   == handler(table, event)
       IN  /\ table' = out.table
           /\ inflight' = Append(inflight,
                 [source |-> "control_plane", event |-> event, pc |-> "done",
                  resp |-> out.resp])
           /\ req' = [source |-> "control_plane", event |-> event]
           /\ resp' = out.resp
           /\ published' = out.published
    /\ UNCHANGED <<ops, marks, bucket, today, clock, queue>>

TradeInvoke ==
    /\ Len(inflight) < MaxTradeRuns
    /\ \E msg \in ConcurrentOrders : inflight' = Append(inflight, StartedTrade(msg))
    /\ UNCHANGED <<table, req, resp, published, ops, marks, bucket, today, clock, queue>>

\* last_price = _get_last_fetched_price(...); notional
TradeGetPrice ==
    \E i \in DOMAIN inflight :
        /\ inflight[i].source = "trade_worker"
        /\ inflight[i].pc = "get_price"
        /\ LET last_price == _get_last_fetched_price(table, inflight[i].msg.symbol)
           IN  inflight' = [inflight EXCEPT
                 ![i].last_price = last_price,
                 ![i].notional = IF last_price # << >> /\ last_price[1] > 0
                                 THEN << last_price[1] * inflight[i].quantity >>
                                 ELSE << >>,
                 ![i].pc = "get_cash"]
        /\ UNCHANGED <<table, req, resp, published, ops, marks, bucket, today, clock, queue>>

\* managed_cash_before = _get_managed_cash(...), and the branches that reject
\* without another call
TradeGetCash ==
    \E i \in DOMAIN inflight :
        /\ inflight[i].source = "trade_worker"
        /\ inflight[i].pc = "get_cash"
        /\ LET run    == inflight[i]
               cash   == _get_managed_cash(table)
               action == Upper(run.msg.action)
               status == IF run.notional = << >> THEN "REJECTED_NO_PRICE"
                         ELSE IF action = "BUY"
                         THEN IF cash < run.notional[1]
                              THEN "REJECTED_INSUFFICIENT_MANAGED_CASH" ELSE "NOOP"
                         ELSE IF action = "SELL" THEN "NOOP"
                         ELSE "REJECTED_BAD_ACTION"
           IN  inflight' = [inflight EXCEPT
                 ![i].managed_cash_before = cash,
                 ![i].managed_cash_after = cash,
                 ![i].trade_status = status,
                 ![i].pc = IF status # "NOOP" THEN "put_item"
                           ELSE IF action = "BUY" THEN "buy_update_cash"
                           ELSE "sell_get_item"]
        /\ UNCHANGED <<table, req, resp, published, ops, marks, bucket, today, clock, queue>>

\* BUY: _update_managed_cash(account_id, managed_cash_before - notional)
TradeBuyUpdateCash ==
    \E i \in DOMAIN inflight :
        /\ inflight[i].source = "trade_worker"
        /\ inflight[i].pc = "buy_update_cash"
        /\ LET after == inflight[i].managed_cash_before - inflight[i].notional[1]
           IN  /\ table' = _update_managed_cash(table, after)
               /\ inflight' = [inflight EXCEPT ![i].managed_cash_after = after,
                                               ![i].pc = "buy_update_shares"]
        /\ UNCHANGED <<req, resp, published, ops, marks, bucket, today, clock, queue>>

\* BUY: SET shares_managed = if_not_exists(shares_managed, 0) + quantity
TradeBuyUpdateShares ==
    \E i \in DOMAIN inflight :
        /\ inflight[i].source = "trade_worker"
        /\ inflight[i].pc = "buy_update_shares"
        /\ table' = [table EXCEPT !.stocks[inflight[i].msg.symbol] =
                        AddToAttr(@, "shares_managed", inflight[i].quantity)]
        /\ inflight' = [inflight EXCEPT ![i].trade_status = "EXECUTED_VIRTUAL",
                                        ![i].pc = "recompute_query"]
        /\ UNCHANGED <<req, resp, published, ops, marks, bucket, today, clock, queue>>

\* SELL: get_item of the entry and the check of current_shares
TradeSellGetItem ==
    \E i \in DOMAIN inflight :
        /\ inflight[i].source = "trade_worker"
        /\ inflight[i].pc = "sell_get_item"
        /\ LET current_shares ==
                 Get(table.stocks[inflight[i].msg.symbol], "shares_managed", 0)
               rejected == current_shares < inflight[i].quantity
           IN  inflight' = [inflight EXCEPT
                 ![i].current_shares = current_shares,
                 ![i].trade_status = IF rejected THEN "REJECTED_INSUFFICIENT_SHARES"
                                     ELSE "NOOP",
                 ![i].pc = IF rejected THEN "put_item" ELSE "sell_update_shares"]
        /\ UNCHANGED <<table, req, resp, published, ops, marks, bucket, today, clock, queue>>

\* SELL: SET shares_managed = current_shares - quantity
TradeSellUpdateShares ==
    \E i \in DOMAIN inflight :
        /\ inflight[i].source = "trade_worker"
        /\ inflight[i].pc = "sell_update_shares"
        /\ table' = [table EXCEPT !.stocks[inflight[i].msg.symbol] =
                        SetAttr(@, "shares_managed",
                                inflight[i].current_shares - inflight[i].quantity)]
        /\ inflight' = [inflight EXCEPT ![i].pc = "sell_update_cash"]
        /\ UNCHANGED <<req, resp, published, ops, marks, bucket, today, clock, queue>>

\* SELL: _update_managed_cash(account_id, managed_cash_before + notional)
TradeSellUpdateCash ==
    \E i \in DOMAIN inflight :
        /\ inflight[i].source = "trade_worker"
        /\ inflight[i].pc = "sell_update_cash"
        /\ LET after == inflight[i].managed_cash_before + inflight[i].notional[1]
           IN  /\ table' = _update_managed_cash(table, after)
               /\ inflight' = [inflight EXCEPT ![i].managed_cash_after = after,
                                               ![i].trade_status = "EXECUTED_VIRTUAL",
                                               ![i].pc = "recompute_query"]
        /\ UNCHANGED <<req, resp, published, ops, marks, bucket, today, clock, queue>>

\* _recompute_positions_and_net_worth: the query over the STOCK# items
TradeRecomputeQuery ==
    \E i \in DOMAIN inflight :
        /\ inflight[i].source = "trade_worker"
        /\ inflight[i].pc = "recompute_query"
        /\ inflight' = [inflight EXCEPT
              ![i].positions_value = PositionsValue(table, SymbolsInKeyOrder),
              ![i].pc = "recompute_get_item"]
        /\ UNCHANGED <<table, req, resp, published, ops, marks, bucket, today, clock, queue>>

\* _recompute_positions_and_net_worth: the get_item of the summary
TradeRecomputeGetItem ==
    \E i \in DOMAIN inflight :
        /\ inflight[i].source = "trade_worker"
        /\ inflight[i].pc = "recompute_get_item"
        /\ inflight' = [inflight EXCEPT
              ![i].cash = Get(table.summary, "current_cash_managed", 0),
              ![i].pc = "recompute_update_item"]
        /\ UNCHANGED <<table, req, resp, published, ops, marks, bucket, today, clock, queue>>

\* _recompute_positions_and_net_worth: the update_item of the summary
TradeRecomputeUpdateItem ==
    \E i \in DOMAIN inflight :
        /\ inflight[i].source = "trade_worker"
        /\ inflight[i].pc = "recompute_update_item"
        /\ table' = [table EXCEPT !.summary =
              SetAttr(SetAttr(@, "positions_value", inflight[i].positions_value),
                      "current_net_worth",
                      inflight[i].cash + inflight[i].positions_value)]
        /\ inflight' = [inflight EXCEPT ![i].pc = "put_item"]
        /\ UNCHANGED <<req, resp, published, ops, marks, bucket, today, clock, queue>>

\* The put_item of the TRADE# item, with which the run ends
TradePutItem ==
    \E i \in DOMAIN inflight :
        /\ inflight[i].source = "trade_worker"
        /\ inflight[i].pc = "put_item"
        /\ LET run    == inflight[i]
               record == TradeRecord(run.msg, run.trade_status, run.quantity,
                                     run.last_price, run.managed_cash_before,
                                     run.managed_cash_after)
           IN  IF TypeSerializable(record)
               THEN /\ table' = [table EXCEPT !.trades = Append(@, record)]
                    /\ resp' = [kind |-> "returned"]
               ELSE /\ table' = table
                    /\ resp' = Raised("TypeError")
        /\ inflight' = [inflight EXCEPT ![i].pc = "done"]
        /\ req' = [source |-> "trade_worker", msg |-> inflight[i].msg]
        /\ published' = << >>
        /\ UNCHANGED <<ops, marks, bucket, today, clock, queue>>

ConcurrentTradeNext ==
    \/ TradeSetupAdd \/ TradeSetupFetch \/ AdjustCashInvoke \/ TradeInvoke
    \/ TradeGetPrice \/ TradeGetCash
    \/ TradeBuyUpdateCash \/ TradeBuyUpdateShares
    \/ TradeSellGetItem \/ TradeSellUpdateShares \/ TradeSellUpdateCash
    \/ TradeRecomputeQuery \/ TradeRecomputeGetItem \/ TradeRecomputeUpdateItem
    \/ TradePutItem

ConcurrentTradeSpec == InitOn(LastDay) /\ [][ConcurrentTradeNext]_vars

-----------------------------------------------------------------------------
(* Claim about concurrent trades                                           *)

AllRunsDone == \A i \in DOMAIN inflight : inflight[i].pc = "done"

\* What the finished invocation added to the cash and to the shares
CashEffect(inv) ==
    IF inv.source = "control_plane"
    THEN IF inv.resp.kind = "response" /\ inv.resp.status = 200
         THEN inv.event.body.delta_cash ELSE 0
    ELSE IF inv.trade_status # "EXECUTED_VIRTUAL" THEN 0
    ELSE IF Upper(inv.msg.action) = "BUY" THEN 0 - inv.notional[1]
    ELSE inv.notional[1]

SharesEffect(inv) ==
    IF inv.source = "control_plane" \/ inv.trade_status # "EXECUTED_VIRTUAL" THEN 0
    ELSE IF Upper(inv.msg.action) = "BUY" THEN inv.quantity
    ELSE 0 - inv.quantity

\* C25: whatever the interleaving of trade runs and adjust-cash calls, once
\* they have all finished cash_managed is the initial cash plus the committed
\* adjust deltas, minus the notional of every executed BUY, plus the notional
\* of every executed SELL, and shares_managed is the initial shares plus the
\* executed BUY quantities minus the executed SELL quantities.
C25_NoLostTradeUpdate ==
    (AllRunsDone /\ table.stocks["AAPL"] # EmptyItem) =>
       /\ CashManaged(table) = SumSeq([i \in DOMAIN inflight |-> CashEffect(inflight[i])])
       /\ SharesManaged(table, "AAPL") =
            SetupShares + SumSeq([i \in DOMAIN inflight |-> SharesEffect(inflight[i])])


-----------------------------------------------------------------------------
(* Net-worth snapshot writer (src/lambda/networth_snapshot_writer/main.py) *)
(* and net-worth plotter (src/lambda/networth_plotter/main.py)             *)
(*                                                                         *)
(* A timestamp is the sequence of its characters after the prefix          *)
(* "1970-01-01T00:00:" that all the timestamps of a run share; the sort    *)
(* key of a point is "NETWORTH#" and the timestamp, so points compare as   *)
(* their timestamps do.  A query result fits in one page of the query.     *)

LastTick == 4

Ticks == 0..LastTick

\* ord(c) of the characters timestamps are made of
CodePoint ==
    [c \in {"+", ".", "0", "1", "2", "3", "4", "5", "6", "7", "8", "9", ":", "Z"} |->
        CASE c = "+" -> 43 [] c = "." -> 46 [] c = "0" -> 48 [] c = "1" -> 49
          [] c = "2" -> 50 [] c = "3" -> 51 [] c = "4" -> 52 [] c = "5" -> 53
          [] c = "6" -> 54 [] c = "7" -> 55 [] c = "8" -> 56 [] c = "9" -> 57
          [] c = ":" -> 58 [] c = "Z" -> 90]

\* a <= b for strings: character by character, a proper prefix first
RECURSIVE StrLeq(_, _)
StrLeq(a, b) ==
    IF a = << >> THEN TRUE
    ELSE IF b = << >> THEN FALSE
    ELSE IF CodePoint[Head(a)] < CodePoint[Head(b)] THEN TRUE
    ELSE IF CodePoint[Head(a)] > CodePoint[Head(b)] THEN FALSE
    ELSE StrLeq(Tail(a), Tail(b))

\* datetime.isoformat() without the offset: "ss" when the microsecond is 0,
\* "ss.ffffff" otherwise
SecondsOfTick(tick) ==
    << Digit((tick \div 2) \div 10), Digit((tick \div 2) % 10) >>
      \o (IF tick % 2 = 0 THEN << >> ELSE << ".", "5", "0", "0", "0", "0", "0" >>)

\* A clock that reads whole seconds only
_now_isoSeconds(tick) ==
    << Digit((tick \div 2) \div 10), Digit((tick \div 2) % 10) >>
      \o << "+", "0", "0", ":", "0", "0" >>

\* _now_iso: datetime.now(timezone.utc).isoformat()
_now_iso(tick) == SecondsOfTick(tick) \o << "+", "0", "0", ":", "0", "0" >>

\* datetime.utcnow().isoformat() + "Z"
UtcNowZ(tick) == SecondsOfTick(tick) \o << "Z" >>

networth_snapshot_writer_handler(t, tick) ==
    LET summary         == t.summary
        cash            == Get(summary, "current_cash_managed", 0)
        positions_value == Get(summary, "positions_value", 0)
        net_worth       == cash + positions_value
        timestamp       == _now_iso(tick)
    IN  [ table |-> [t EXCEPT !.networth =
                        SetAttr(@, timestamp, [ net_worth       |-> net_worth,
                                                cash            |-> cash,
                                                positions_value |-> positions_value,
                                                created_at      |-> timestamp ])],
          resp  |-> Response(200, [written_at |-> timestamp]) ]

\* sorted(..., key=SK) of a set of sort keys
RECURSIVE SortedKeys(_)
SortedKeys(keys) ==
    IF keys = {} THEN << >>
    ELSE LET first == CHOOSE k \in keys : \A o \in keys : StrLeq(k, o)
         IN  << first >> \o SortedKeys(keys \ {first})

\* A query that leaves out a point on the end bound
_query_networth_pointsExclusive(t, start_time, end_time) ==
    LET keys == {k \in DOMAIN t.networth :
                    StrLeq(start_time, k) /\ StrLeq(k, end_time) /\ k # end_time}
        sk   == SortedKeys(keys)
    IN  [i \in DOMAIN sk |-> [SK |-> sk[i], net_worth |-> t.networth[sk[i]].net_worth]]

\* _query_networth_points: SK BETWEEN :start AND :end, sorted by SK.  Of an
\* item the plot uses the SK and net_worth.
_query_networth_points(t, start_time, end_time) ==
    LET keys == {k \in DOMAIN t.networth : StrLeq(start_time, k) /\ StrLeq(k, end_time)}
        sk   == SortedKeys(keys)
    IN  [i \in DOMAIN sk |-> [SK |-> sk[i], net_worth |-> t.networth[sk[i]].net_worth]]

\* _make_plot: the series that is drawn, times and net worths
_make_plot(points) ==
    [i \in DOMAIN points |-> << points[i].SK, points[i].net_worth >>]

\* handler of the plotter: the plot goes to plots/networth/<request id>.png
networth_plotter_handler(t, b, params, tick, request_id) ==
    LET start_time == Get(params, "start_time", << "0", "0", "Z" >>)
        end_time   == Get(params, "end_time", UtcNowZ(tick))
        points     == _query_networth_points(t, start_time, end_time)
        key        == << "plots", "networth", request_id >>
    IN  [ bucket |-> [k \in DOMAIN b \cup {key} |->
                        IF k = key THEN [deleted |-> FALSE, body |-> _make_plot(points)]
                        ELSE b[k]],
          resp   |-> Response(200, [start_time |-> start_time, end_time |-> end_time,
                                    s3_key |-> key]) ]

\* One scheduled invocation of the snapshot writer; the clock has moved on
\* since the invocation before.
SnapshotWriterCall(tick) ==
    LET out == networth_snapshot_writer_handler(table, tick)
    IN  /\ tick > clock
        /\ clock' = tick
        /\ table' = out.table
        /\ req' = [source |-> "networth_snapshot_writer"]
        /\ resp' = out.resp
        /\ published' = << >>
        /\ ops' = ops + 1
        /\ marks' = << >>
        /\ UNCHANGED <<inflight, bucket, today, queue>>

\* One request to the plotter
PlotterCall(params) ==
    LET out == networth_plotter_handler(table, bucket, params, clock, Uuid4(ops, 0))
    IN  /\ bucket' = out.bucket
        /\ req' = [source |-> "networth_plotter", params |-> params]
        /\ resp' = out.resp
        /\ published' = << >>
        /\ ops' = ops + 1
        /\ marks' = << >>
        /\ UNCHANGED <<table, inflight, today, clock, queue>>


-----------------------------------------------------------------------------
(* Snapshot specification: snapshots and plots of an account that is set   *)
(* up, funded and traded                                                   *)
MaxSnapshotOps == 4

\* start_time / end_time of a request: timestamps as the snapshot writer
\* makes them, and times in the "...Z" form of the plotter's defaults
QueryTimes == {_now_iso(n) : n \in 1..3} \cup {UtcNowZ(2)}

QueryParams ==
    {EmptyItem}
    \cup {[start_time |-> s, end_time |-> e] : s \in QueryTimes, e \in QueryTimes}
    \cup {[end_time |-> e] : e \in QueryTimes}

SnapshotAdd ==
    /\ ops < MaxSnapshotOps
    /\ ControlPlaneCall(Post(<<"watchlist">>, [symbol |-> "aapl", shares_managed |-> 2]))

SnapshotAdjustCash ==
    /\ ops < MaxSnapshotOps
    /\ ControlPlaneCall(Post(<<"account", "cash", "adjust">>,
                             [delta_cash |-> 60, max_allowed_cash |-> 1000]))

SnapshotFetcherRun ==
    /\ ops < MaxSnapshotOps
    /\ \E feed \in TradeFeeds : FetcherCall(feed)

SnapshotTrade ==
    /\ ops < MaxSnapshotOps
    /\ \E msg \in ConcurrentOrders : TradeWorkerCall(msg)

SnapshotRun ==
    /\ ops < MaxSnapshotOps
    /\ \E tick \in Ticks : SnapshotWriterCall(tick)

PlotterRun ==
    /\ ops < MaxSnapshotOps
    /\ \E params \in QueryParams : PlotterCall(params)

SnapshotNext ==
    \/ SnapshotAdd \/ SnapshotAdjustCash \/ SnapshotFetcherRun \/ SnapshotTrade
    \/ SnapshotRun \/ PlotterRun

SnapshotSpec == InitOn(LastDay) /\ [][SnapshotNext]_vars

-----------------------------------------------------------------------------
(* Claims about snapshots and the range query                              *)

IsSnapshot(r) == r.source = "networth_snapshot_writer"

IsPlot(r) == r.source = "networth_plotter"

\* The bounds of the request, the defaults filled in
StartOf(r) == IF Has(r.params, "start_time") THEN r.params.start_time
              ELSE << "0", "0", "Z" >>

EndOf(r, tick) == IF Has(r.params, "end_time") THEN r.params.end_time ELSE UtcNowZ(tick)

\* The series of a plot is in strictly ascending key order
Ascending(series) ==
    \A i, j \in DOMAIN series :
        i < j => StrLeq(series[i][1], series[j][1]) /\ series[i][1] # series[j][1]

\* C28: a range query with bounds [start, end] returns exactly the points
\* whose key k has NETWORTH#start <= k <= NETWORTH#end, both bounds included,
\* in ascending key order; and that is the order the snapshots were written
\* in: every snapshot's key is above the keys of all the snapshots before it.
C28_RangeQuery ==
    [][ /\ IsPlot(req') =>
             LET series == bucket'[resp'.body.s3_key].body
                 start  == StartOf(req')
                 end    == EndOf(req', clock)
             IN  /\ {series[i][1] : i \in DOMAIN series} =
                       {k \in DOMAIN table.networth : StrLeq(start, k) /\ StrLeq(k, end)}
                 /\ \A i \in DOMAIN series :
                       series[i][2] = table.networth[series[i][1]].net_worth
                 /\ Ascending(series)
        /\ IsSnapshot(req') =>
             \A k \in DOMAIN table.networth :
                \A new \in DOMAIN table'.networth \ DOMAIN table.networth :
                   StrLeq(k, new) /\ k # new
      ]_vars

\* Three points written at T1 < T2 < T3, and a query with [T1, T2] that has
\* returned the first two of them
C28_Witness ==
    /\ IsPlot(req)
    /\ Has(req.params, "start_time") /\ Has(req.params, "end_time")
    /\ Cardinality(DOMAIN table.networth) = 3
    /\ LET series == bucket[resp.body.s3_key].body
       IN  /\ Len(series) = 2
           /\ series[1][1] = req.params.start_time
           /\ series[2][1] = req.params.end_time
           /\ \E k \in DOMAIN table.networth : StrLeq(req.params.end_time, k)
                                                /\ k # req.params.end_time


-----------------------------------------------------------------------------
(* Publish-failure specification: control-plane calls during which SNS may *)
(* be unreachable, so that every sns.publish of the call raises            *)
MaxPublishOps == 3

\* handler when sns.publish raises.  _publish_external catches the exception
\* and prints it; the publishes to SystemOpsTopic, in _handle_delete_watchlist
\* and _handle_apply_sentiment, are in no try block, so there the exception
\* leaves the handler, after the writes to the table that come before it.
\* The Lambda invoke of the add is not an SNS call.
handlerWhenPublishRaises(t, event) ==
    LET out      == handler(t, event)
        uncaught == \E i \in DOMAIN out.published :
                       out.published[i].topic = "SystemOpsTopic"
        IsInvoke(message) == message.topic = "InvokeNewsFetcher"
    IN  IF uncaught
        THEN Outcome(out.table, Raised("ClientError"), << >>)
        ELSE Outcome(out.table, out.resp, SelectSeq(out.published, IsInvoke))

\* One whole invocation of the control-plane Lambda while SNS is unreachable
ControlPlaneCallPublishRaising(event) ==
    LET out == handlerWhenPublishRaises(table, event)
    IN  /\ table' = out.table
        /\ req' = [source |-> "control_plane", event |-> event, sns |-> "unreachable"]
        /\ resp' = out.resp
        /\ published' = out.published
        /\ ops' = ops + 1
        /\ marks' = << >>
        /\ UNCHANGED <<inflight, bucket, today, clock, queue>>

\* The same call with SNS reachable or not
EitherWay(event) == ControlPlaneCall(event) \/ ControlPlaneCallPublishRaising(event)

PublishAdd ==
    /\ ops < MaxPublishOps
    /\ EitherWay(Post(<<"watchlist">>, [symbol |-> "aapl", shares_managed |-> 2]))

PublishAdjustCash ==
    /\ ops < MaxPublishOps
    /\ EitherWay(Post(<<"account", "cash", "adjust">>,
                      [delta_cash |-> 60, max_allowed_cash |-> 1000]))

PublishAdjustShares ==
    /\ ops < MaxPublishOps
    /\ EitherWay(Post(<<"account", "shares", "adjust">>,
                      [symbol |-> "aapl", delta_shares |-> 1, max_shares_allowed |-> 5]))

PublishSetThreshold ==
    /\ ops < MaxPublishOps
    /\ \E th \in {1, 2} :
          EitherWay(Post(<<"watchlist", "aapl", "threshold">>, [threshold_abs |-> th]))

PublishApplySentiment ==
    /\ ops < MaxPublishOps
    /\ \E d \in {-1, 1, 3} :
          EitherWay(Post(<<"sentiment">>, [symbol |-> "aapl", delta_score |-> d]))

PublishFailureNext ==
    \/ PublishAdd \/ PublishAdjustCash \/ PublishAdjustShares
    \/ PublishSetThreshold \/ PublishApplySentiment

PublishFailureSpec == InitOn(LastDay) /\ [][PublishFailureNext]_vars

-----------------------------------------------------------------------------
(* Claim about publish failures                                            *)

\* C29: when the publish of a derived event (the audit event or the
\* AUTO_TRADE_DECISION) fails after the ledger write of an add, an adjust, a
\* setThreshold or an applySentiment, the failure is caught: the call still
\* reports success to its caller, as it does when the publish works, and the
\* ledger write is kept.
C29_PublishFailureIsCaught ==
    [][ (req'.source = "control_plane" /\ Has(req', "sns")) =>
          LET working == handler(table, req'.event)
          IN  /\ table' = working.table
              /\ resp' = working.resp
              /\ (table' # table => resp'.kind = "response" /\ resp'.status = 200)
      ]_vars


-----------------------------------------------------------------------------
(* Validation specification: control-plane requests with and without their *)
(* required fields                                                         *)
MaxValidationOps == 2

\* The records over every subset of the given fields
Restrictions(body) == {[f \in fields |-> body[f]] : fields \in SUBSET DOMAIN body}

ValidationAddBodies ==
    Restrictions([symbol |-> "aapl", shares_managed |-> 2]) \cup {[symbol |-> ""]}

ValidationCashBodies == Restrictions([delta_cash |-> 60, max_allowed_cash |-> 1000])

ValidationSharesBodies ==
    Restrictions([symbol |-> "aapl", delta_shares |-> 1, max_shares_allowed |-> 5])

ValidationThresholdBodies == Restrictions([threshold_abs |-> 2])

ValidationSentimentBodies ==
    Restrictions([symbol |-> "aapl", delta_score |-> 3, threshold_abs |-> 2])

ValidationAdd ==
    /\ ops < MaxValidationOps
    /\ \E body \in ValidationAddBodies : ControlPlaneCall(Post(<<"watchlist">>, body))

ValidationAdjustCash ==
    /\ ops < MaxValidationOps
    /\ \E body \in ValidationCashBodies :
          ControlPlaneCall(Post(<<"account", "cash", "adjust">>, body))

ValidationAdjustShares ==
    /\ ops < MaxValidationOps
    /\ \E body \in ValidationSharesBodies :
          ControlPlaneCall(Post(<<"account", "shares", "adjust">>, body))

ValidationSetThreshold ==
    /\ ops < MaxValidationOps
    /\ \E body \in ValidationThresholdBodies :
          ControlPlaneCall(Post(<<"watchlist", "aapl", "threshold">>, body))

ValidationApplySentiment ==
    /\ ops < MaxValidationOps
    /\ \E body \in ValidationSentimentBodies :
          ControlPlaneCall(Post(<<"sentiment">>, body))

ValidationNext ==
    \/ ValidationAdd \/ ValidationAdjustCash \/ ValidationAdjustShares
    \/ ValidationSetThreshold \/ ValidationApplySentiment

ValidationSpec == InitOn(LastDay) /\ [][ValidationNext]_vars

-----------------------------------------------------------------------------
(* Claim about requests with a required field missing                      *)

\* The fields the operation of the request cannot do without
RequiredFields(event) ==
    IF event.path = <<"watchlist">> THEN {"symbol"}
    ELSE IF event.path = <<"account", "cash", "adjust">>
    THEN {"delta_cash", "max_allowed_cash"}
    ELSE IF event.path = <<"account", "shares", "adjust">>
    THEN {"symbol", "delta_shares", "max_shares_allowed"}
    ELSE IF event.path = <<"sentiment">> THEN {"symbol", "delta_score"}
    ELSE {"threshold_abs"}

MissesRequiredField(event) == ~(RequiredFields(event) \subseteq DOMAIN event.body)

\* C30: a control-plane request that misses a required field is answered
\* with an error response at once; no item is written and no event is
\* published for it.
C30_MissingFieldRejected ==
    [][ (req'.source = "control_plane" /\ MissesRequiredField(req'.event)) =>
          /\ resp'.kind = "response"
          /\ resp'.status = 400
          /\ "error" \in DOMAIN resp'.body
          /\ table' = table
          /\ published' = << >>
      ]_vars

\* A setThreshold without threshold_abs, refused on a ledger that has the
\* entry
C30_Witness ==
    /\ req.source = "control_plane"
    /\ req.event.path = <<"watchlist", "aapl", "threshold">>
    /\ MissesRequiredField(req.event)
    /\ resp.kind = "response" /\ resp.status = 400
    /\ table.stocks["AAPL"] # EmptyItem


-----------------------------------------------------------------------------
(* Claims about what is stored in a watchlist entry                        *)

\* C32: in every reachable state the threshold of every watchlist entry is
\* an integer > 0, whatever adds, setThresholds, applySentiments and scorer
\* runs came before.
C32_ThresholdPositive ==
    \A s \in Symbols :
        Has(table.stocks[s], "threshold_abs") => table.stocks[s].threshold_abs > 0


IsSetThreshold(r) ==
    /\ r.source = "control_plane"
    /\ Len(r.event.path) = 3
    /\ r.event.path[3] = "threshold"

\* C40: a watchlist entry is created only by add: a softDelete or a
\* setThreshold for a symbol that has no entry leaves the store without an
\* item for the symbol; and no entry is ever removed.
C40_EntriesOnlyByAdd ==
    [][ /\ (req'.source = "soft_delete" \/ IsSetThreshold(req')) =>
             \A s \in Symbols :
                table.stocks[s] = EmptyItem => table'.stocks[s] = EmptyItem
        /\ \A s \in Symbols :
              table.stocks[s] # EmptyItem => table'.stocks[s] # EmptyItem
      ]_vars


-----------------------------------------------------------------------------
(* Claims about deliveries that happen more than once                      *)

\* The NEW_NEWS messages of a batch, each counted once however often it was
\* delivered
DistinctNews(records) ==
    {records[i] : i \in {j \in 1..Len(records) : Get(records[j], "type", "") = "NEW_NEWS"}}

\* C37: one news item yields at most one artifact and one NEWS_STORED, also
\* when its NEW_NEWS is delivered more than once: a news-writer invocation
\* stores no more objects and publishes no more messages than its batch has
\* distinct news items.
C37_OneArtifactPerItem ==
    [][ req'.source = "news_writer" =>
          /\ Cardinality(DOMAIN bucket' \ DOMAIN bucket)
                <= Cardinality(DistinctNews(req'.records))
          /\ Len(published') <= Cardinality(DistinctNews(req'.records))
      ]_vars


\* The external-ops invocation of the step consumes exactly the event that
\* the control-plane call before it published
ConsumesPublishedEvent ==
    /\ req.source = "control_plane"
    /\ resp.kind = "response"
    /\ resp.status = 200
    /\ Len(published) = 1
    /\ published[1].topic = "ExternalOpsTopic"
    /\ req'.source = "external_ops"
    /\ req'.records = << published[1].msg >>

\* C38: a control-plane command takes effect exactly once: when the
\* ADJUST_MANAGED_SHARES event of a shares adjustment is consumed by the
\* external-ops handler, the symbol's managed shares stay what the
\* adjustment left.
C38_EffectExactlyOnce ==
    [][ (ConsumesPublishedEvent /\ published[1].msg.type = "ADJUST_MANAGED_SHARES") =>
          table'.stocks[published[1].msg.symbol]
             = table.stocks[published[1].msg.symbol]
      ]_vars


-----------------------------------------------------------------------------
(* Concurrent sentiment specification: POST /sentiment calls run step by   *)
(* step, one DynamoDB or SNS call per step, next to each other and to the  *)
(* soft-delete Lambda (src/lambda/control_plane_api/main.py,               *)
(* src/lambda/soft_delete/main.py)                                         *)

MaxSentimentRuns == 2

ConcurrentDeltas == {1, 3, -3}

ConcurrentSentimentBodies ==
    {[symbol |-> "aapl", delta_score |-> d] : d \in ConcurrentDeltas}

\* _handle_apply_sentiment up to its first DynamoDB call
StartedSentiment(body) ==
    [ source             |-> "control_plane",
      event              |-> Post(<<"sentiment">>, body),
      pc                 |-> "get_item",
      symbol             |-> Upper(body.symbol),
      delta_score        |-> body.delta_score,
      hint               |-> Get(body, "threshold_abs", 3),
      reason             |-> Get(body, "reason", "FINBERT"),
      item               |-> EmptyItem,
      current_score      |-> 0,
      new_score          |-> 0,
      threshold_abs      |-> 0,
      action             |-> "NONE" ]

SentimentSetupAdd ==
    /\ inflight = << >>
    /\ table.stocks["AAPL"] = EmptyItem
    /\ ControlPlaneCall(Post(<<"watchlist">>, [symbol |-> "aapl", shares_managed |-> 0]))

SentimentInvoke ==
    /\ Len(inflight) < MaxSentimentRuns
    /\ table.stocks["AAPL"] # EmptyItem
    /\ \E body \in ConcurrentSentimentBodies :
          inflight' = Append(inflight, StartedSentiment(body))
    /\ UNCHANGED <<table, req, resp, published, ops, marks, bucket, today, clock, queue>>

\* resp = table.get_item(...); current_score, existing_threshold, new_score,
\* threshold_abs
SentimentGetItem ==
    \E i \in DOMAIN inflight :
        /\ inflight[i].source = "control_plane"
        /\ inflight[i].pc = "get_item"
        /\ LET run                == inflight[i]
               item               == table.stocks[run.symbol]
               current_score      == Get(item, "current_level_score", 0)
               existing_threshold == Get(item, "threshold_abs", run.hint)
           IN  inflight' = [inflight EXCEPT
                   ![i].item          = item,
                   ![i].current_score = current_score,
                   ![i].new_score     = current_score + run.delta_score,
                   ![i].threshold_abs = EffectiveThreshold(existing_threshold, run.hint),
                   ![i].pc            = "update_item"]
        /\ UNCHANGED <<table, req, resp, published, ops, marks, bucket, today, clock, queue>>

\* table.update_item(SET current_level_score = :s, threshold_abs = :t, ...)
SentimentUpdateItem ==
    \E i \in DOMAIN inflight :
        /\ inflight[i].source = "control_plane"
        /\ inflight[i].pc = "update_item"
        /\ LET run == inflight[i]
           IN  table' = [table EXCEPT !.stocks[run.symbol] =
                   SetAttr(SetAttr(@, "current_level_score", run.new_score),
                           "threshold_abs", run.threshold_abs)]
        /\ inflight' = [inflight EXCEPT ![i].pc = "put_item"]
        /\ UNCHANGED <<req, resp, published, ops, marks, bucket, today, clock, queue>>

\* table.put_item(Item={... SK: SCORE#<symbol>#<ts> ...})
SentimentPutItem ==
    \E i \in DOMAIN inflight :
        /\ inflight[i].source = "control_plane"
        /\ inflight[i].pc = "put_item"
        /\ LET run == inflight[i]
           IN  table' = [table EXCEPT !.scores =
                   Append(@, ScoreHistoryItem(run.symbol, run.current_score,
                                              run.delta_score, run.new_score,
                                              run.threshold_abs, run.reason))]
        /\ inflight' = [inflight EXCEPT ![i].pc = "publish"]
        /\ UNCHANGED <<req, resp, published, ops, marks, bucket, today, clock, queue>>

\* The threshold checks, sns.publish of the decision, and the response
SentimentPublish ==
    \E i \in DOMAIN inflight :
        /\ inflight[i].source = "control_plane"
        /\ inflight[i].pc = "publish"
        /\ LET run    == inflight[i]
               action == ThresholdCheck(run.new_score, run.threshold_abs)
           IN  /\ inflight' = [inflight EXCEPT ![i].action = action, ![i].pc = "done"]
               /\ published' =
                     IF action # "NONE" /\ SYSTEM_OPS_TOPIC_ARN # ""
                     THEN << DecisionMessage(run.symbol, action, run.new_score,
                                             run.threshold_abs, run.reason) >>
                     ELSE << >>
               /\ resp' = Response(200, [ message       |-> "sentiment applied",
                                          symbol        |-> run.symbol,
                                          new_score     |-> run.new_score,
                                          threshold_abs |-> run.threshold_abs,
                                          action        |-> action ])
               /\ req' = [source |-> "control_plane", event |-> run.event]
        /\ UNCHANGED <<table, ops, marks, bucket, today, clock, queue>>

\* The soft-delete Lambda on MARK_STOCK_DELETED: its one update_item is its
\* only access to the entry, so the invocation is one step.
SentimentSoftDelete ==
    /\ Len(inflight) < MaxSentimentRuns
    /\ table.stocks["AAPL"] # EmptyItem
    /\ LET records == << [type |-> "MARK_STOCK_DELETED", symbol |-> "AAPL"] >>
           out     == soft_delete_handler(table, bucket, records, today)
       IN  /\ table' = out.table
           /\ bucket' = out.bucket
           /\ inflight' = Append(inflight,
                 [source |-> "soft_delete", records |-> records, pc |-> "done"])
           /\ req' = [source |-> "soft_delete", records |-> records]
           /\ resp' = out.resp
           /\ published' = << >>
    /\ UNCHANGED <<ops, marks, today, clock, queue>>

ConcurrentSentimentNext ==
    \/ SentimentSetupAdd \/ SentimentInvoke \/ SentimentGetItem
    \/ SentimentUpdateItem \/ SentimentPutItem \/ SentimentPublish
    \/ SentimentSoftDelete

ConcurrentSentimentSpec == InitOn(LastDay) /\ [][ConcurrentSentimentNext]_vars

\* The sentiment calls among the runs, in the order they were started
SentimentRuns == SelectSeq(inflight, LAMBDA r : r.source = "control_plane")

RECURSIVE SumOfDeltas(_)
SumOfDeltas(runs) ==
    IF runs = << >> THEN 0 ELSE Head(runs).delta_score + SumOfDeltas(Tail(runs))

\* C35: no sentiment update is lost: once all the calls that were started
\* after the add have returned, the symbol's score is the sum of their deltas,
\* and each history record starts from the score its predecessor ended at.
C35_NoLostSentimentUpdate ==
    (AllRunsDone /\ SentimentRuns # << >>) =>
        /\ table.stocks["AAPL"].current_level_score = SumOfDeltas(SentimentRuns)
        /\ \A k \in 2..Len(table.scores) :
              table.scores[k].old_score = table.scores[k - 1].new_score


\* One sentiment call and one soft delete, and nothing else, since the add
OneOfEach ==
    /\ Len(inflight) = 2
    /\ Len(SentimentRuns) = 1
    /\ \E i \in DOMAIN inflight : inflight[i].source = "soft_delete"

\* The add, the sentiment call and then the soft delete, one after another
Sequential(run) ==
    LET added   == handler(EmptyTable, Post(<<"watchlist">>,
                                           [symbol |-> "aapl", shares_managed |-> 0]))
        applied == handler(added.table, run.event)
        deleted == soft_delete_handler(applied.table, bucket,
                       << [type |-> "MARK_STOCK_DELETED", symbol |-> "AAPL"] >>, today)
    IN  [table |-> deleted.table, resp |-> applied.resp]

\* C34: softDelete and applySentiment on one existing symbol commute:
\* however the steps of the two interleave, once both are over the store is
\* the one that the two leave when run one after the other (is_deleted true,
\* score old + delta, the threshold as it was, the same history record), and
\* the call has taken the same decision.
C34_SoftDeleteCommutesWithSentiment ==
    (OneOfEach /\ AllRunsDone) =>
        LET run == SentimentRuns[1]
        IN  /\ table = Sequential(run).table
            /\ table.stocks["AAPL"].is_deleted = TRUE
            /\ table.stocks["AAPL"].current_level_score = run.delta_score
            /\ run.action = Sequential(run).resp.body.action

\* Both are over, and the call read the entry before the soft delete wrote it
C34_Witness ==
    /\ OneOfEach /\ AllRunsDone
    /\ inflight[1].source = "control_plane"
    /\ inflight[1].item.is_deleted = FALSE
    /\ inflight[1].action = "BUY"
    /\ table.stocks["AAPL"].is_deleted = TRUE


-----------------------------------------------------------------------------
(* Stop specification: the local worker is a process, and a process can be *)
(* stopped between any two of its calls; nothing is rolled back            *)
(* (src/local_app/local_trade_worker.py)                                   *)

StoppedAt(pc) ==
    CASE pc = "buy_update_shares" -> "stopped_before_buy_update_shares"
      [] pc = "sell_update_cash"  -> "stopped_before_sell_update_cash"
      [] OTHER                    -> "stopped"

IsStopped(run) ==
    run.pc \in {"stopped", "stopped_before_buy_update_shares",
                "stopped_before_sell_update_cash"}

\* The worker process ends before the run's next call
TradeStop ==
    \E i \in DOMAIN inflight :
        /\ inflight[i].source = "trade_worker"
        /\ inflight[i].pc # "done"
        /\ ~IsStopped(inflight[i])
        /\ inflight' = [inflight EXCEPT ![i].pc = StoppedAt(inflight[i].pc)]
        /\ UNCHANGED <<table, req, resp, published, ops, marks, bucket, today, clock, queue>>

StopNext == ConcurrentTradeNext \/ TradeStop

StopSpec == InitOn(LastDay) /\ [][StopNext]_vars

StoppedBetweenWrites(run) ==
    /\ run.source = "trade_worker"
    /\ run.pc \in {"stopped_before_buy_update_shares", "stopped_before_sell_update_cash"}

\* The cash that the adjust-cash calls among the invocations committed
AdjustedCash(invs) ==
    SumSeq([i \in DOMAIN invs |->
               IF invs[i].source = "control_plane" THEN CashEffect(invs[i]) ELSE 0])

\* All the invocations are adjust-cash calls
OnlyAdjusts(invs) == \A i \in DOMAIN invs : invs[i].source = "control_plane"

\* run2 is a finished run for the message of run, started after run's write
RedeliveredAfter(run, run2) ==
    /\ run2.source = "trade_worker"
    /\ run2.pc = "done"
    /\ run2.msg = run.msg
    /\ run2.trade_status = "EXECUTED_VIRTUAL"
    /\ IF run.pc = "stopped_before_buy_update_shares"
       THEN run2.managed_cash_before = run.managed_cash_after
       ELSE run2.current_shares = run.current_shares - run.quantity

\* Cash and shares after the one write that a run stopped between its two
\* writes has made, on top of `cash` and `shares`
PartialCash(run, cash) ==
    IF run.pc = "stopped_before_buy_update_shares" THEN cash - run.notional[1] ELSE cash

PartialShares(run, shares) ==
    IF run.pc = "stopped_before_sell_update_cash" THEN shares - run.quantity ELSE shares

\* C33: the cash write and the shares write of a trade are two writes: a
\* worker stopped between them leaves a partial trade (BUY: cash debited,
\* shares not credited; SELL: shares debited, cash not credited) with no
\* TradeRecord and no recomputed valuation; and nothing repairs it: when the
\* decision is delivered again the whole trade is made on top of the partial
\* one.
C33_PartialTrade ==
    /\ \A n \in DOMAIN inflight :
          (/\ n = Len(inflight)
           /\ StoppedBetweenWrites(inflight[n])
           /\ OnlyAdjusts(SubSeq(inflight, 1, n - 1))) =>
             LET run == inflight[n]
             IN  /\ CashManaged(table)
                      = PartialCash(run, AdjustedCash(SubSeq(inflight, 1, n - 1)))
                 /\ SharesManaged(table, "AAPL") = PartialShares(run, SetupShares)
                 /\ table.trades = << >>
                 /\ ~Has(table.summary, "positions_value")
    /\ \A n \in DOMAIN inflight :
          (/\ n + 1 = Len(inflight)
           /\ StoppedBetweenWrites(inflight[n])
           /\ OnlyAdjusts(SubSeq(inflight, 1, n - 1))
           /\ RedeliveredAfter(inflight[n], inflight[n + 1])) =>
             LET run  == inflight[n]
                 run2 == inflight[n + 1]
                 cash == PartialCash(run, AdjustedCash(SubSeq(inflight, 1, n - 1)))
                 held == PartialShares(run, SetupShares)
             IN  /\ CashManaged(table) = cash + CashEffect(run2)
                 /\ SharesManaged(table, "AAPL") = held + SharesEffect(run2)

\* A BUY stopped after its cash write
C33_Witness ==
    /\ Len(inflight) = 2
    /\ inflight[1].source = "control_plane"
    /\ inflight[2].pc = "stopped_before_buy_update_shares"
    /\ CashManaged(table) < AdjustedCash(inflight)
    /\ SharesManaged(table, "AAPL") = SetupShares

\* A SELL stopped after its shares write, and its decision delivered again
C33_RedeliveryReached ==
    /\ Len(inflight) = 2
    /\ inflight[1].pc = "stopped_before_sell_update_cash"
    /\ RedeliveredAfter(inflight[1], inflight[2])


-----------------------------------------------------------------------------
(* Fetcher stop specification: a fetcher run can end before its next call  *)
(* (a timeout, or sns.publish raising: the handler has no try around it),  *)
(* and the schedule starts the fetcher again                               *)
(* (src/lambda/news_fetcher/main.py, src/cdk/infra_stack.py)               *)

\* The number of runs that stop
MaxStops == 1

FetcherStop ==
    \E i \in DOMAIN inflight :
        /\ Cardinality({j \in DOMAIN inflight : inflight[j].pc = "stopped"}) < MaxStops
        /\ inflight[i].source = "news_fetcher"
        /\ inflight[i].pc \notin {"done", "stopped"}
        /\ inflight' = [inflight EXCEPT ![i].pc = "stopped"]
        /\ UNCHANGED <<table, req, resp, published, ops, marks, bucket, today, clock, queue>>

FetcherStopNext == ConcurrentNewsNext \/ FetcherStop

\* A started run takes its next step unless it is stopped, and the schedule
\* (every 10 minutes) starts runs as long as the bound allows.
FetcherStopSpec ==
    /\ Init
    /\ [][FetcherStopNext]_vars
    /\ WF_vars(FetcherInvoke)
    /\ WF_vars(FetcherQuery)
    /\ WF_vars(FetcherSymbol)
    /\ WF_vars(FetcherMark)
    /\ WF_vars(FetcherPublish)
    /\ WF_vars(FetcherReturn)

\* The news items that the feeds hold
FeedItems ==
    UNION { {_fetch_news("AAPL", feed["AAPL"].news, 10)[k] :
                k \in DOMAIN _fetch_news("AAPL", feed["AAPL"].news, 10)} :
            feed \in ConcurrentFeeds }

\* Some run's _mark_news_seen returned True for the item
FirstSeen(news) ==
    \E i \in DOMAIN inflight :
        /\ inflight[i].source = "news_fetcher"
        /\ \E k \in DOMAIN inflight[i].marks :
              inflight[i].marks[k] = [news |-> news, first_seen |-> TRUE]

\* Some run's sns.publish sent the item's NEW_NEWS
PublishedAsNewNews(news) ==
    \E i \in DOMAIN inflight :
        /\ inflight[i].source = "news_fetcher"
        /\ \E k \in DOMAIN inflight[i].published :
              inflight[i].published[k] = NewNewsMessage(news)

\* C36: every news item that was first seen is eventually published as
\* NEW_NEWS, also when a run stops between the marking and the publishing and
\* the fetcher runs again.
C36_FirstSeenEventuallyPublished ==
    \A news \in FeedItems : FirstSeen(news) ~> PublishedAsNewNews(news)


-----------------------------------------------------------------------------
(* The system-ops queue Q2 and its three consumers: the news-writer Lambda *)
(* and the soft-delete Lambda (SQS event sources) and the local worker     *)
(* (src/cdk/infra_stack.py, src/local_app/local_trade_worker.py)           *)
(*                                                                         *)
(* A message is received by one consumer at a time; a Lambda's batch is    *)
(* one message, and SQS deletes it when the invocation returns.  A message *)
(* that is not deleted becomes visible again.                              *)

MGMT_API_BASE_URL == "http://mgmt"

\* An SQS message body: the JSON of an SNS notification, or text that is not
\* JSON
Envelope(msg) == [valid_json |-> TRUE, Message |-> msg]

NotJson == [valid_json |-> FALSE]

SqsMessage(body) == [body |-> body, deleted |-> FALSE]

\* The SNS subscription: what is published to SystemOpsTopic arrives on Q2
Delivered(q, msgs) ==
    LET system == SelectSeq(msgs, LAMBDA m : m.topic = "SystemOpsTopic")
    IN  q \o [k \in DOMAIN system |-> SqsMessage(Envelope(system[k].msg))]

\* _sqs_record_to_message of the two Lambdas: {} when the body is not JSON
_sqs_record_to_message(record) ==
    IF record.body.valid_json THEN record.body.Message ELSE EmptyItem

\* _run_finbert_on_text: the placeholder always returns +1
_run_finbert_on_text == 1

\* _handle_news_stored: loads the artifact and posts its sentiment to the
\* control plane; every failure is caught and printed
_handle_news_stored(t, b, msg) ==
    IF MGMT_API_BASE_URL = "" THEN [table |-> t, published |-> << >>]
    ELSE IF ~(Has(msg, "symbol") /\ Has(msg, "bucket") /\ Has(msg, "key"))
    THEN [table |-> t, published |-> << >>]
    ELSE IF msg.bucket # BUCKET_NAME \/ msg.key \notin DOMAIN b
    THEN [table |-> t, published |-> << >>]
    ELSE LET out == handler(t, Post(<<"sentiment">>,
                                    [symbol      |-> msg.symbol,
                                     delta_score |-> _run_finbert_on_text,
                                     reason      |-> "FINBERT"]))
         IN  [table |-> out.table, published |-> out.published]

WorkerOutcome(t,ms, delete, r) ==
    [table |-> t, published |-> ms, delete |-> delete, resp |-> r]

\* A loop body that deletes the message in its finally clause whether or not
\* the handler returned.
main_messageDeletingAlways(t, b, record) ==
    IF ~record.body.valid_json
    THEN WorkerOutcome(t, << >>, TRUE, [kind |-> "parse_failed"])
    ELSE LET msg      == record.body.Message
             msg_type == Get(msg, "type", "")
         IN  IF msg_type = "AUTO_TRADE_DECISION"
             THEN LET out == _handle_auto_trade_decision(t, msg)
                  IN  WorkerOutcome(out.table, << >>, TRUE, out.resp)
             ELSE IF msg_type = "NEWS_STORED"
             THEN LET out == _handle_news_stored(t, b, msg)
                  IN  WorkerOutcome(out.table, out.published, TRUE, [kind |-> "returned"])
             ELSE WorkerOutcome(t, << >>, FALSE, [kind |-> "ignored"])

\* main: the body of `for r in records` for one received message
main_message(t, b, record) ==
    IF ~record.body.valid_json
    THEN WorkerOutcome(t, << >>, TRUE, [kind |-> "parse_failed"])
    ELSE LET msg      == record.body.Message
             msg_type == Get(msg, "type", "")
         IN  IF msg_type = "AUTO_TRADE_DECISION"
             THEN LET out == _handle_auto_trade_decision(t, msg)
                  IN  WorkerOutcome(out.table, << >>, out.resp.kind = "returned",
                                    out.resp)
             ELSE IF msg_type = "NEWS_STORED"
             THEN LET out == _handle_news_stored(t, b, msg)
                  IN  WorkerOutcome(out.table, out.published, TRUE, [kind |-> "returned"])
             ELSE WorkerOutcome(t, << >>, FALSE, [kind |-> "ignored"])

MaxQueued == 3

QueueBodies ==
    { Envelope([type |-> "NEW_NEWS", symbol |-> "AAPL", headline |-> "Up", body |-> "s",
                published_at |-> IsoTimestamp(0)]),
      Envelope([type |-> "MARK_STOCK_DELETED", symbol |-> "AAPL"]),
      Envelope([type |-> "AUTO_TRADE_DECISION", symbol |-> "AAPL", action |-> "BUY",
                score |-> 3, threshold_abs |-> 3, reason |-> "FINBERT"]),
      NotJson }

\* A publisher's message arrives on the queue
QueueSend ==
    /\ Len(queue) < MaxQueued
    /\ \E body \in QueueBodies : queue' = Append(queue, SqsMessage(body))
    /\ UNCHANGED <<table, req, resp, published, ops, inflight, marks, bucket, today, clock>>

\* The local worker receives a message and runs its loop body on it
WorkerReceive ==
    \E i \in DOMAIN queue :
        /\ ~queue[i].deleted
        /\ LET out == main_message(table, bucket, queue[i])
           IN  /\ Len(queue) + Len(out.published) <= MaxQueued
               /\ table' = out.table
               /\ queue' = Delivered([queue EXCEPT ![i].deleted = out.delete],
                                     out.published)
               /\ req' = [source |-> "local_worker", record |-> i]
               /\ resp' = out.resp
               /\ published' = out.published
        /\ UNCHANGED <<ops, inflight, marks, bucket, today, clock>>

\* The news-writer Lambda is invoked with a message; it returns, so SQS
\* deletes the message
NewsWriterReceive ==
    \E i \in DOMAIN queue :
        /\ ~queue[i].deleted
        /\ LET records == << _sqs_record_to_message(queue[i]) >>
               out     == news_writer_handler(bucket, records, today, ops)
           IN  /\ Len(queue) + Len(out.published) <= MaxQueued
               /\ bucket' = out.bucket
               /\ queue' = Delivered([queue EXCEPT ![i].deleted = TRUE], out.published)
               /\ req' = [source |-> "news_writer", record |-> i, records |-> records]
               /\ resp' = out.resp
               /\ published' = out.published
               /\ ops' = ops + 1
        /\ UNCHANGED <<table, inflight, marks, today, clock>>

\* The soft-delete Lambda is invoked with a message; it returns, so SQS
\* deletes the message
SoftDeleteReceive ==
    \E i \in DOMAIN queue :
        /\ ~queue[i].deleted
        /\ LET records == << _sqs_record_to_message(queue[i]) >>
               out     == soft_delete_handler(table, bucket, records, today)
           IN  /\ table' = out.table
               /\ bucket' = out.bucket
               /\ queue' = [queue EXCEPT ![i].deleted = TRUE]
               /\ req' = [source |-> "soft_delete", record |-> i, records |-> records]
               /\ resp' = out.resp
               /\ published' = << >>
        /\ UNCHANGED <<ops, inflight, marks, today, clock>>

QueueNext == QueueSend \/ WorkerReceive \/ NewsWriterReceive \/ SoftDeleteReceive

QueueSpec == InitOn(LastDay) /\ [][QueueNext]_vars

\* Every consumer that is attached to the queue keeps receiving
FairQueueSpec ==
    /\ InitOn(LastDay)
    /\ [][QueueNext]_vars
    /\ WF_vars(WorkerReceive)
    /\ WF_vars(NewsWriterReceive)
    /\ WF_vars(SoftDeleteReceive)


TypeOf(record) ==
    IF record.body.valid_json THEN Get(record.body.Message, "type", "") ELSE ""

\* The step is the local worker's loop body on message i
WorkerStepOn(i) ==
    /\ ~queue[i].deleted
    /\ req'.source = "local_worker"
    /\ req'.record = i

\* The handler of the message's type returns on the present table
HandlerReturns(record) ==
    \/ TypeOf(record) = "NEWS_STORED"
    \/ /\ TypeOf(record) = "AUTO_TRADE_DECISION"
       /\ _handle_auto_trade_decision(table, record.body.Message).resp.kind = "returned"

\* C39: the local worker deletes a message only after the handler of its
\* type has returned without raising: a message whose handler raises, or of a
\* type the worker has no handler for, is not deleted by the worker; a message
\* that cannot be parsed is deleted without being handled.
C39_DeletedOnlyAfterHandled ==
    [][ \A i \in DOMAIN queue :
          WorkerStepOn(i) =>
             IF queue[i].body.valid_json
             THEN queue'[i].deleted <=> HandlerReturns(queue[i])
             ELSE /\ queue'[i].deleted
                  /\ table' = table
                  /\ published' = << >>
      ]_vars

\* The worker handled a NEWS_STORED message (its sentiment is applied) and
\* deleted it
C39_Witness ==
    /\ req.source = "local_worker"
    /\ TypeOf(queue[req.record]) = "NEWS_STORED"
    /\ queue[req.record].deleted
    /\ table.scores # << >>


\* Message i is on the queue and has the type
Queued(i, type) == i \in DOMAIN queue /\ TypeOf(queue[i]) = type

\* Message i has been given to the consumer
HandledBy(i, consumer) == req.source = consumer /\ req.record = i

\* C31: every AUTO_TRADE_DECISION on the system-ops queue is eventually
\* handled by the trade executor, and every MARK_STOCK_DELETED by the
\* soft-delete Lambda, although the other consumers of the queue receive
\* messages of all types and skip those that are not theirs.
C31_EveryMessageReachesItsConsumer ==
    \A i \in 1..MaxQueued :
        /\ Queued(i, "AUTO_TRADE_DECISION") ~> HandledBy(i, "local_worker")
        /\ Queued(i, "MARK_STOCK_DELETED") ~> HandledBy(i, "soft_delete")

====
